---- MODULE Spec2Model ----
(***************************************************************************)
(* A model of the Decepticon orchestrator: the tmux tool server, the       *)
(* turn consumer (message processor, de-duplication, session log), the     *)
(* replay systems and the thread/identity layer.                           *)
(*                                                                         *)
(* Each subsystem has its own variables, its own initial predicate and its *)
(* own next-state relation; a subsystem's specification leaves the other   *)
(* subsystems' variables at their initial values.                          *)
(***************************************************************************)
EXTENDS Integers, Sequences, FiniteSets, TLC

Range(s) == {s[i] : i \in 1..Len(s)}

(***************************************************************************)
(* ---------------------------  TOOL SERVER  ----------------------------- *)
(* src/src/tools/mcp/terminal.py (impl = "terminal") and                   *)
(* src/src/tools/mcp/interactive_exec.py (impl = "interactive").           *)
(***************************************************************************)
VARIABLES
    impl,          \* which of the two tool servers is running
    tmuxSessions,  \* the sessions the tmux server inside the container holds
    registry,      \* interactive_exec.py: the process-level `sessions` dict
    shq,           \* per session: the commands typed and not yet returned
    pane,          \* per session: what the pane shows
    cpc,           \* per caller: where its request stands
    creq,          \* per caller: the request being served
    cres,          \* per caller: what the request returned
    callCount,     \* number of requests started so far
    everKilled,    \* history: the ids a kill_session/kill_server has removed
    everExeced     \* history: the ids a command_exec has returned pane text for

tmuxVars == <<impl, tmuxSessions, registry, shq, pane, cpc, creq, cres,
              callCount, everKilled, everExeced>>

\* Bounds of the tool-server model.
NumSessionIds == 2
MaxCalls == 4

SessionIds == 1..NumSessionIds
\* Two clients of the server, so that one request can race another.
Callers == {"a", "b"}
Impls == {"terminal", "interactive"}

NoReq == [op |-> "none", sid |-> 0, call |-> 0, existed |-> FALSE]
NoRes == [kind |-> "none", pane |-> <<>>]
\* The tool raised: the client gets an error instead of a result.
ErrRes == [kind |-> "error", pane |-> <<>>]
\* The tool returned the captured pane (or, for create/kill, its message).
TextRes(p) == [kind |-> "text", pane |-> p]
\* interactive_exec.py: the tool returned tmux's stderr as its result.
StderrRes == [kind |-> "stderr", pane |-> <<>>]

TmuxInit ==
    /\ impl \in Impls
    /\ tmuxSessions = {}
    /\ registry = {}
    /\ shq = [s \in SessionIds |-> <<>>]
    /\ pane = [s \in SessionIds |-> <<>>]
    /\ cpc = [c \in Callers |-> "idle"]
    /\ creq = [c \in Callers |-> NoReq]
    /\ cres = [c \in Callers |-> NoRes]
    /\ callCount = 0
    /\ everKilled = {}
    /\ everExeced = {}

\* `tmux <cmd> -t s` exits 0 exactly when the server holds session s.
TmuxHas(s) == s \in tmuxSessions

\* A faulty variant of CreateSession: the id is handed back without regard to
\* what tmux new-session answered.
CreateSessionUnchecked(c, s) ==
    /\ cpc[c] = "idle"
    /\ callCount < MaxCalls
    /\ callCount' = callCount + 1
    /\ creq' = [creq EXCEPT ![c] = [op |-> "create", sid |-> s,
                                    call |-> callCount + 1, existed |-> TmuxHas(s)]]
    /\ cpc' = [cpc EXCEPT ![c] = "done"]
    /\ tmuxSessions' = tmuxSessions \cup {s}
    /\ registry' = IF impl = "interactive" THEN registry \cup {s} ELSE registry
    /\ cres' = [cres EXCEPT ![c] = TextRes(<<>>)]
    /\ UNCHANGED <<impl, shq, pane, everKilled, everExeced>>

\* create_session: the id is the first 8 hex digits of a uuid4, so it may
\* repeat; tmux new-session refuses a name it already holds.
CreateSession(c, s) ==
    /\ cpc[c] = "idle"
    /\ callCount < MaxCalls
    /\ callCount' = callCount + 1
    /\ creq' = [creq EXCEPT ![c] = [op |-> "create", sid |-> s,
                                    call |-> callCount + 1, existed |-> TmuxHas(s)]]
    /\ cpc' = [cpc EXCEPT ![c] = "done"]
    /\ IF TmuxHas(s)
         THEN /\ cres' = [cres EXCEPT ![c] = ErrRes]
              /\ UNCHANGED <<tmuxSessions, registry, shq, pane>>
         ELSE /\ tmuxSessions' = tmuxSessions \cup {s}
              /\ registry' = IF impl = "interactive" THEN registry \cup {s} ELSE registry
              /\ shq' = [shq EXCEPT ![s] = <<>>]
              /\ pane' = [pane EXCEPT ![s] = <<>>]
              /\ cres' = [cres EXCEPT ![c] = TextRes(<<>>)]
    /\ UNCHANGED <<impl, everKilled, everExeced>>

\* A faulty variant of SendFailed: the failed send is not raised, tmux's stderr is
\* handed back as if it were the command's output.
SendFailedReturnsText(c) ==
    /\ cres' = [cres EXCEPT ![c] = TextRes(<<>>)]
    /\ cpc' = [cpc EXCEPT ![c] = "done"]
    /\ UNCHANGED <<shq, pane>>

\* What a failed send-keys makes command_exec do: terminal.py raises.
SendFailed(c) ==
    /\ cres' = [cres EXCEPT ![c] = ErrRes]
    /\ cpc' = [cpc EXCEPT ![c] = "done"]
    /\ UNCHANGED <<shq, pane>>

\* command_exec / interactive_exec, first half: send-keys <command> Enter.
\* The keys are echoed in the pane and the shell runs the command when the
\* commands typed before it have returned.
ExecSend(c, s) ==
    /\ cpc[c] = "idle"
    /\ callCount < MaxCalls
    /\ callCount' = callCount + 1
    /\ creq' = [creq EXCEPT ![c] = [op |-> "exec", sid |-> s,
                                    call |-> callCount + 1, existed |-> TmuxHas(s)]]
    /\ IF impl = "interactive" /\ s \notin registry
         THEN SendFailed(c)
         ELSE IF ~TmuxHas(s)
                THEN IF impl = "terminal"
                       THEN SendFailed(c)
                       ELSE /\ cpc' = [cpc EXCEPT ![c] = "sent"]
                            /\ UNCHANGED <<cres, shq, pane>>
                ELSE /\ shq' = [shq EXCEPT ![s] = Append(@, callCount + 1)]
                     /\ pane' = [pane EXCEPT ![s] = Append(@, <<"in", callCount + 1>>)]
                     /\ cpc' = [cpc EXCEPT ![c] = "sent"]
                     /\ UNCHANGED cres
    /\ UNCHANGED <<impl, tmuxSessions, registry, everKilled, everExeced>>

\* The command at the head of a session's shell returns and its output
\* appears in the pane. When that happens is up to the command.
CmdReturn(s) ==
    /\ TmuxHas(s)
    /\ shq[s] # <<>>
    /\ pane' = [pane EXCEPT ![s] = Append(@, <<"out", Head(shq[s])>>)]
    /\ shq' = [shq EXCEPT ![s] = Tail(@)]
    /\ UNCHANGED <<impl, tmuxSessions, registry, cpc, creq, cres, callCount,
                   everKilled, everExeced>>

\* capture-pane -p -t s: the pane's text, or the failure each server makes of
\* a non-zero exit.
CaptureResult(s) ==
    IF TmuxHas(s) THEN TextRes(pane[s])
    ELSE IF impl = "terminal" THEN ErrRes
    ELSE StderrRes

\* command_exec / interactive_exec, second half: time.sleep(0.5) is over and
\* capture-pane runs. terminal.py raises on a failed capture,
\* interactive_exec.py returns tmux's stderr as its result.
ExecCapture(c) ==
    /\ cpc[c] = "sent"
    /\ LET s == creq[c].sid IN
         /\ cres' = [cres EXCEPT ![c] = CaptureResult(s)]
         /\ everExeced' = IF TmuxHas(s) THEN everExeced \cup {s} ELSE everExeced
    /\ cpc' = [cpc EXCEPT ![c] = "done"]
    /\ UNCHANGED <<impl, tmuxSessions, registry, shq, pane, creq, callCount, everKilled>>

\* kill_session: terminal.py reports success whatever tmux answered;
\* interactive_exec.py raises for an id its registry does not hold.
KillSession(c, s) ==
    /\ cpc[c] = "idle"
    /\ callCount < MaxCalls
    /\ callCount' = callCount + 1
    /\ creq' = [creq EXCEPT ![c] = [op |-> "kill", sid |-> s,
                                    call |-> callCount + 1, existed |-> TmuxHas(s)]]
    /\ cpc' = [cpc EXCEPT ![c] = "done"]
    /\ IF impl = "interactive" /\ s \notin registry
         THEN /\ cres' = [cres EXCEPT ![c] = ErrRes]
              /\ UNCHANGED <<tmuxSessions, registry, shq, pane, everKilled>>
         ELSE /\ tmuxSessions' = tmuxSessions \ {s}
              /\ registry' = registry \ {s}
              /\ shq' = [shq EXCEPT ![s] = <<>>]
              /\ pane' = [pane EXCEPT ![s] = <<>>]
              /\ everKilled' = IF TmuxHas(s) THEN everKilled \cup {s} ELSE everKilled
              /\ cres' = [cres EXCEPT ![c] = TextRes(<<>>)]
    /\ UNCHANGED <<impl, everExeced>>

\* kill_server (terminal.py only): every session goes.
KillServer(c) ==
    /\ impl = "terminal"
    /\ cpc[c] = "idle"
    /\ callCount < MaxCalls
    /\ callCount' = callCount + 1
    /\ creq' = [creq EXCEPT ![c] = [op |-> "killserver", sid |-> 0,
                                    call |-> callCount + 1, existed |-> FALSE]]
    /\ cpc' = [cpc EXCEPT ![c] = "done"]
    /\ everKilled' = everKilled \cup tmuxSessions
    /\ tmuxSessions' = {}
    /\ shq' = [s \in SessionIds |-> <<>>]
    /\ pane' = [s \in SessionIds |-> <<>>]
    /\ cres' = [cres EXCEPT ![c] = TextRes(<<>>)]
    /\ UNCHANGED <<impl, registry, everExeced>>

\* The caller has read the answer and may issue its next request.
CallerNext(c) ==
    /\ cpc[c] = "done"
    /\ callCount < MaxCalls
    /\ cpc' = [cpc EXCEPT ![c] = "idle"]
    /\ UNCHANGED <<impl, tmuxSessions, registry, shq, pane, creq, cres,
                   callCount, everKilled, everExeced>>

(***************************************************************************)
(* ---------------------------  TURN CONSUMER  --------------------------- *)
(* One user turn as its consumer runs it:                                  *)
(*   "handler"  src/frontend/web/core/workflow_handler.py                  *)
(*   "webapp"   src/frontend/web/app.py (execute_workflow)                 *)
(*   "cliv3"    src/cliv3.py (execute_workflow)                            *)
(*   "cli"      src/cli.py (execute_workflow, directly on the graph)       *)
(* with the message processor of src/frontend/message.py and the session   *)
(* logger of src/src/utils/logging/minimal_logger.py.  The producer of the *)
(* event stream (the Executor) is not part of the sources at hand; its     *)
(* stream discipline follows the design document, section 4.6.             *)
(***************************************************************************)
VARIABLES
    consumer,               \* which consumer this process runs
    hashSeed,               \* the process's string-hash seed (PYTHONHASHSEED)
    now,                    \* the wall clock read by datetime.now()
    tpc,                    \* "idle" between turns, "streaming" inside one
    stream,                 \* the turn's event stream: "open", "completed", "errored", "raised"
    workflow_running,       \* st.session_state.workflow_running
    structured_messages,    \* st.session_state.structured_messages
    terminal_messages,      \* st.session_state.terminal_messages
    event_history,          \* st.session_state.event_history
    active_agent,           \* st.session_state.active_agent
    completed_agents,       \* st.session_state.completed_agents
    console,                \* what the CLI has printed
    processed_message_ids,  \* cli.py: self.processed_message_ids
    logger_events,          \* logger.current_session.events
    disk,                   \* the session's JSON file
    emitCount,              \* per raw event: how often this turn emitted it
    turnCount,              \* user inputs taken so far
    eventCount,             \* message events delivered so far
    last_save,              \* what the latest save_session() call returned
    turn_result,            \* how the latest execute_workflow call ended
    resetCount,             \* session resets so far
    rejectCount             \* user inputs turned away so far

turnVars == <<consumer, hashSeed, now, tpc, stream, workflow_running,
              structured_messages, terminal_messages, event_history,
              active_agent, completed_agents, console, processed_message_ids,
              logger_events, disk, emitCount, turnCount, eventCount,
              last_save, turn_result, resetCount, rejectCount>>

\* Bounds of the turn model.
MaxInputs == 4
MaxClock == 1

Consumers == {"handler", "webapp", "cliv3", "cli"}
WebConsumers == {"handler", "webapp"}
Seeds == {"s1", "s2"}
AgentNames == {"Planner", "Reconnaissance"}
ToolNames == {"command_exec"}
\* A text is <<its first 100 characters, the rest>>.
Contents == {<<"scan", "">>, <<"scan", "+">>}
UserInputs == {<<"scan", "">>}
\* message.id of a graph message; "none" when the message carries no id.
MessageIds == {"none", "m1"}

\* str.lower() on the names in use.
Lower(n) ==
    CASE n = "Planner" -> "planner"
      [] n = "Reconnaissance" -> "reconnaissance"
      [] n = "User" -> "user"
      [] OTHER -> n

\* hash(s): a function of the process's seed and the string.
Hash(s) == <<hashSeed, s>>
\* content[:100]
Prefix100(c) == <<c[1], "">>

\* A Message event as the Executor yields it (design document, section 4.6).
MessageEvent(mt, a, tn, c, id) ==
    [type |-> "message", message_type |-> mt, agent_name |-> a,
     tool_name |-> tn, content |-> c, id |-> id]

\* What the graph can deliver in a turn: assistant texts, tool results and the
\* echo of the user's message.
GraphMessages ==
    {MessageEvent("ai", a, "none", c, id) :
        a \in AgentNames, c \in Contents, id \in MessageIds}
    \cup {MessageEvent("tool", "Unknown", tn, c, id) :
        tn \in ToolNames, c \in Contents, id \in MessageIds}
    \cup {MessageEvent("user", "User", "none", c, id) :
        c \in UserInputs, id \in MessageIds}

\* The Executor's events do not expose the graph message's id.
ExecutorEvents == {e \in GraphMessages : e.id = "none"}

EventsFor(c) == IF c = "cli" THEN GraphMessages ELSE ExecutorEvents

CompleteEvent == [type |-> "workflow_complete"]
ErrorEvent == [type |-> "error"]
NoEvent == [type |-> "none"]
NoId == <<>>

\* CLIMessageProcessor._create_user_message
CreateUserMessage(c, t) ==
    [type |-> "user", agent_id |-> "none", tool_name |-> "none", content |-> c,
     id |-> <<"user", "none", Hash(c), t>>]

\* CLIMessageProcessor.process_cli_event, at wall-clock time t.
ProcessCliEvent(e, t) ==
    IF e.message_type = "tool"
      THEN [type |-> "tool", agent_id |-> "none", tool_name |-> e.tool_name,
            content |-> e.content,
            id |-> <<"tool", e.tool_name, Hash(Prefix100(e.content)), t>>]
    ELSE IF e.message_type = "user"
      THEN CreateUserMessage(e.content, t)
    ELSE [type |-> "ai", agent_id |-> Lower(e.agent_name), tool_name |-> "none",
          content |-> e.content,
          id |-> <<"ai", Lower(e.agent_name), Hash(Prefix100(e.content)), t>>]

\* A faulty variant of IsDuplicateMessage: only the ID comparison is made.
IsDuplicateById(m, existing) ==
    /\ m.id # NoId
    /\ \E i \in 1..Len(existing) : existing[i].id = m.id

\* A faulty variant of IsDuplicateMessage: a message without an id is compared
\* like any other.
IsDuplicateUnguarded(m, existing) ==
    \/ \E i \in 1..Len(existing) : existing[i].id = m.id
    \/ \E i \in 1..Len(existing) :
         /\ existing[i].agent_id = m.agent_id
         /\ existing[i].type = m.type
         /\ existing[i].content = m.content

\* CLIMessageProcessor.is_duplicate_message
IsDuplicateMessage(m, existing) ==
    /\ m.id # NoId
    /\ \/ \E i \in 1..Len(existing) : existing[i].id = m.id
       \/ \E i \in 1..Len(existing) :
            /\ existing[i].agent_id = m.agent_id
            /\ existing[i].type = m.type
            /\ existing[i].content = m.content

\* MinimalLogger.log_* : one event appended to the current session.
LogEvent(k, a, tn, c) ==
    [event_type |-> k, agent_name |-> a, tool_name |-> tn, content |-> c]
log_user_input(L, c) == Append(L, LogEvent("user_input", "none", "none", c))
log_agent_response(L, a, c) == Append(L, LogEvent("agent_response", a, "none", c))
log_tool_command(L, tn, c) == Append(L, LogEvent("tool_command", "none", tn, c))
log_tool_output(L, tn, c) == Append(L, LogEvent("tool_output", "none", tn, c))

\* WorkflowHandler._log_message_event and its inline twin in web/app.py.
LogMessageEvent(L, e) ==
    IF e.message_type = "ai" THEN log_agent_response(L, e.agent_name, e.content)
    ELSE IF e.message_type = "tool"
      THEN IF "command" \in DOMAIN e
             THEN log_tool_command(L, e.tool_name, e.command)
             ELSE log_tool_output(L, e.tool_name, e.content)
    ELSE L

\* MinimalLogger.save_session: the whole session is rewritten to its file.
NoFile == [exists |-> FALSE, events |-> <<>>]
SavedFile(L) == [exists |-> TRUE, events |-> L]

\* The agent the status panel derives from the event history: the latest ai
\* message's agent, lower-cased.
RECURSIVE LatestAiAgent(_)
LatestAiAgent(h) ==
    IF h = <<>> THEN "none"
    ELSE LET e == h[Len(h)] IN
         IF e.type = "message" /\ e.message_type = "ai" /\ e.agent_name # "Unknown"
           THEN Lower(e.agent_name)
           ELSE LatestAiAgent(SubSeq(h, 1, Len(h) - 1))

\* _update_agent_status / _update_agent_status_from_events
UpdateAgentStatus(h) ==
    LET a == LatestAiAgent(h) IN
    IF a # "none" /\ a # active_agent
      THEN /\ active_agent' = a
           /\ completed_agents' =
                IF active_agent # "none" /\ active_agent \notin Range(completed_agents)
                  THEN Append(completed_agents, active_agent)
                  ELSE completed_agents
      ELSE UNCHANGED <<active_agent, completed_agents>>

ConsoleLine(k, n, c) == [type |-> k, name |-> n, content |-> c]

\* utils.message.extract_message_content: rich.markup.escape of the text.
ExtractMessageContent(e) == <<"escaped", e.content>>

\* cli.py should_display_message: the id the message is tracked under.
CliMessageId(e) ==
    IF e.id # "none" THEN <<"id", e.id>>
    ELSE <<"hash", e.agent_name, Hash(ExtractMessageContent(e))>>

TurnRest ==
    /\ now = 0
    /\ tpc = "idle"
    /\ stream = "open"
    /\ workflow_running = FALSE
    /\ structured_messages = <<>>
    /\ terminal_messages = <<>>
    /\ event_history = <<>>
    /\ active_agent = "none"
    /\ completed_agents = <<>>
    /\ console = <<>>
    /\ processed_message_ids = {}
    /\ logger_events = <<>>
    /\ disk = NoFile
    /\ emitCount = [e \in GraphMessages |-> 0]
    /\ turnCount = 0
    /\ eventCount = 0
    /\ last_save = "none"
    /\ turn_result = "none"
    /\ resetCount = 0
    /\ rejectCount = 0

\* After construction and logger.start_session().
TurnInit ==
    /\ consumer \in Consumers
    /\ hashSeed \in Seeds
    /\ TurnRest

\* The turn subsystem at rest, for the specifications of the others.
TurnIdle ==
    /\ consumer = "handler"
    /\ hashSeed = "s1"
    /\ TurnRest

\* The inputs taken so far: user inputs, delivered events, resets, rejected
\* inputs and clock ticks.
Spent == turnCount + eventCount + resetCount + rejectCount + now

\* The clock has moved on by dt since it was last read.
Tick(dt) ==
    /\ now + dt <= MaxClock
    /\ now' = now + dt

\* The consumers that read the clock: the message processor stamps its IDs.
ClockSteps(c) == IF c \in WebConsumers THEN 0..1 ELSE {0}

\* A faulty variant of AdmitsInput: the running turn is not looked at.
AdmitsInputAlways == TRUE

\* The web consumers' entry check: an input is taken only while no turn runs.
AdmitsInput == ~workflow_running

\* execute_user_input / execute_workflow up to the first event of the stream.
StartTurn(u) ==
    /\ tpc = "idle"
    /\ consumer \in WebConsumers => AdmitsInput
    /\ \E dt \in ClockSteps(consumer) :
         /\ Spent + 1 + dt <= MaxInputs
         /\ Tick(dt)
         /\ structured_messages' =
              IF consumer \in WebConsumers
                THEN Append(structured_messages, CreateUserMessage(u, now + dt))
                ELSE structured_messages
    /\ logger_events' =
         IF consumer \in {"webapp", "cliv3"}
           THEN log_user_input(logger_events, u)
           ELSE logger_events
    /\ console' =
         IF consumer \in WebConsumers THEN console
         ELSE Append(console, ConsoleLine("user", "none", u))
    /\ processed_message_ids' = {}
    /\ workflow_running' = (consumer \in WebConsumers)
    /\ emitCount' = [e \in GraphMessages |-> 0]
    /\ stream' = "open"
    /\ tpc' = "streaming"
    /\ turnCount' = turnCount + 1
    /\ turn_result' = "running"
    /\ UNCHANGED <<consumer, hashSeed, terminal_messages, event_history,
                   active_agent, completed_agents, disk, eventCount,
                   last_save, resetCount, rejectCount>>

\* The stream yields events until its terminal event has been yielded.
StreamOpenForever == stream \in {"open", "completed", "errored"}

StreamOpen == stream = "open"

\* handler / webapp: one message event of the stream.
WebOnMessage(e, t) ==
    LET m == ProcessCliEvent(e, t)
        h == Append(event_history, e)
    IN
    /\ event_history' = h
    /\ IF IsDuplicateMessage(m, structured_messages)
         THEN UNCHANGED <<structured_messages, terminal_messages, logger_events,
                          emitCount>>
         ELSE /\ structured_messages' = Append(structured_messages, m)
              /\ logger_events' = LogMessageEvent(logger_events, e)
              /\ terminal_messages' =
                   IF m.type = "tool" THEN Append(terminal_messages, m)
                   ELSE terminal_messages
              /\ emitCount' = [emitCount EXCEPT ![e] = @ + 1]
    /\ UpdateAgentStatus(h)
    /\ UNCHANGED <<console, processed_message_ids>>

\* cliv3: _handle_message_event logs and prints every ai and tool message.
Cliv3OnMessage(e) ==
    /\ IF e.message_type = "ai"
         THEN /\ logger_events' = log_agent_response(logger_events, e.agent_name, e.content)
              /\ console' = Append(console, ConsoleLine("ai", e.agent_name, e.content))
              /\ emitCount' = [emitCount EXCEPT ![e] = @ + 1]
         ELSE IF e.message_type = "tool"
           THEN /\ logger_events' = log_tool_output(logger_events, e.tool_name, e.content)
                /\ console' = Append(console, ConsoleLine("tool", e.tool_name, e.content))
                /\ emitCount' = [emitCount EXCEPT ![e] = @ + 1]
           ELSE UNCHANGED <<logger_events, console, emitCount>>
    /\ UNCHANGED <<structured_messages, terminal_messages, event_history,
                   active_agent, completed_agents, processed_message_ids>>

\* cli: should_display_message, then the panel of an ai or tool message.
CliOnMessage(e) ==
    LET id == CliMessageId(e) IN
    /\ IF id \in processed_message_ids
         THEN UNCHANGED <<processed_message_ids, console, emitCount>>
         ELSE /\ processed_message_ids' = processed_message_ids \cup {id}
              /\ IF e.message_type = "user"
                   THEN UNCHANGED <<console, emitCount>>
                   ELSE /\ console' = Append(console,
                              ConsoleLine(e.message_type,
                                          IF e.message_type = "ai" THEN e.agent_name
                                          ELSE e.tool_name,
                                          ExtractMessageContent(e)))
                        /\ emitCount' = [emitCount EXCEPT ![e] = @ + 1]
    /\ UNCHANGED <<structured_messages, terminal_messages, event_history,
                   active_agent, completed_agents, logger_events>>

\* The loop body of the consumer for a Message event.
OnMessage(e) ==
    /\ tpc = "streaming"
    /\ StreamOpen
    /\ e \in EventsFor(consumer)
    /\ eventCount' = eventCount + 1
    /\ \E dt \in ClockSteps(consumer) :
         /\ Spent + 1 + dt <= MaxInputs
         /\ Tick(dt)
         /\ IF consumer \in WebConsumers THEN WebOnMessage(e, now + dt)
            ELSE IF consumer = "cliv3" THEN Cliv3OnMessage(e)
            ELSE CliOnMessage(e)
    /\ UNCHANGED <<consumer, hashSeed, tpc, stream, workflow_running, disk,
                   turnCount, last_save, turn_result, resetCount, rejectCount>>

\* A faulty variant of OnWriteFailure: the write's exception leaves
\* save_session.
OnWriteFailureRaise == "raise"

\* What save_session does when the write fails: it catches the exception,
\* prints it and returns False.
OnWriteFailure == "return_false"

\* A faulty variant of SaveSession: True is returned without a write.
SaveSessionUnwritten(ok) ==
    /\ disk' = disk
    /\ last_save' = "saved"

\* logger.save_session() on the open session; ok tells whether the write
\* succeeded.  A failed write leaves the file as it was.
SaveSession(ok) ==
    /\ disk' = IF ok THEN SavedFile(logger_events) ELSE disk
    /\ last_save' = IF ok THEN "saved" ELSE "failed"

\* What the consumer's execute call returns when its save returns: the
\* handler True (False after an exception out of the stream), cliv3 True after WorkflowComplete and False after an error,
\* web/app.py and cli.py nothing.
ReturnValue(c, s) ==
    CASE c = "handler" -> IF s = "raised" THEN "false" ELSE "true"
      [] c = "cliv3" -> IF s = "completed" THEN "true" ELSE "false"
      [] OTHER -> "returned"

\* How the execute call ends given the outcome of its save: an exception out
\* of the save lands in cliv3's except branch (False) and leaves the web
\* consumers' finally block.
TurnEnd(c, s, ok) ==
    IF ~ok /\ OnWriteFailure = "raise"
      THEN IF c = "cliv3" THEN "false" ELSE "raised"
      ELSE ReturnValue(c, s)

\* A faulty variant of FinallyWorkflowRunning: the flag is cleared at the end
\* of the try block only, which an exception skips.
WorkflowRunningWithoutFinally(cause) == cause = "exception"

\* workflow_running as the finally block leaves it, whatever ended the turn.
FinallyWorkflowRunning(cause) == FALSE

\* The loop body for WorkflowComplete (for cli: the graph stream is exhausted).
\* cliv3 breaks out of the loop and saves; the web consumers keep iterating.
OnComplete ==
    /\ tpc = "streaming"
    /\ StreamOpen
    /\ stream' = "completed"
    /\ IF consumer \in WebConsumers
         THEN /\ event_history' = Append(event_history, CompleteEvent)
              /\ UpdateAgentStatus(Append(event_history, CompleteEvent))
              /\ UNCHANGED <<tpc, disk, last_save, turn_result>>
         ELSE IF consumer = "cliv3"
           THEN /\ tpc' = "idle"
                /\ \E ok \in BOOLEAN :
                     /\ SaveSession(ok)
                     /\ turn_result' = TurnEnd(consumer, "completed", ok)
                /\ UNCHANGED <<event_history, active_agent, completed_agents>>
           ELSE /\ tpc' = "idle"
                /\ turn_result' = ReturnValue(consumer, "completed")
                /\ UNCHANGED <<event_history, active_agent, completed_agents,
                               disk, last_save>>
    /\ UNCHANGED <<consumer, hashSeed, now, workflow_running, structured_messages,
                   terminal_messages, console, processed_message_ids,
                   logger_events, emitCount, turnCount, eventCount,
                   resetCount, rejectCount>>

\* The loop body for Error (for cli: the graph stream raises).  The handler
\* breaks, cliv3 raises into its except branch, web/app.py keeps iterating.
OnError ==
    /\ tpc = "streaming"
    /\ StreamOpen
    /\ stream' = "errored"
    /\ IF consumer = "webapp"
         THEN /\ event_history' = Append(event_history, ErrorEvent)
              /\ UpdateAgentStatus(Append(event_history, ErrorEvent))
              /\ UNCHANGED <<tpc, disk, workflow_running, last_save, turn_result>>
         ELSE IF consumer = "handler"
           THEN /\ event_history' = Append(event_history, ErrorEvent)
                /\ workflow_running' = FinallyWorkflowRunning("break")
                /\ \E ok \in BOOLEAN :
                     /\ SaveSession(ok)
                     /\ turn_result' = TurnEnd(consumer, "errored", ok)
                /\ tpc' = "idle"
                /\ UNCHANGED <<active_agent, completed_agents>>
           ELSE IF consumer = "cliv3"
             THEN /\ tpc' = "idle"
                  /\ \E ok \in BOOLEAN :
                       /\ SaveSession(ok)
                       /\ turn_result' = TurnEnd(consumer, "errored", ok)
                  /\ UNCHANGED <<event_history, active_agent, completed_agents,
                                 workflow_running>>
             ELSE /\ tpc' = "idle"
                  /\ turn_result' = ReturnValue(consumer, "errored")
                  /\ UNCHANGED <<event_history, active_agent, completed_agents,
                                 workflow_running, disk, last_save>>
    /\ UNCHANGED <<consumer, hashSeed, now, structured_messages,
                   terminal_messages, console, processed_message_ids,
                   logger_events, emitCount, turnCount, eventCount,
                   resetCount, rejectCount>>

\* The executor's stream raises an exception in a web consumer: the outer
\* except branch reports it and the finally block runs.
OnStreamException ==
    /\ tpc = "streaming"
    /\ StreamOpen
    /\ consumer \in WebConsumers
    /\ stream' = "raised"
    /\ workflow_running' = FinallyWorkflowRunning("exception")
    /\ \E ok \in BOOLEAN :
         /\ SaveSession(ok)
         /\ turn_result' = TurnEnd(consumer, "raised", ok)
    /\ tpc' = "idle"
    /\ UNCHANGED <<consumer, hashSeed, now, structured_messages,
                   terminal_messages, event_history, active_agent,
                   completed_agents, console, processed_message_ids,
                   logger_events, emitCount, turnCount, eventCount,
                   resetCount, rejectCount>>

\* The stream is exhausted: the web consumers' finally block.
StreamEnd ==
    /\ tpc = "streaming"
    /\ stream \in {"completed", "errored"}
    /\ workflow_running' = FinallyWorkflowRunning("stream_end")
    /\ \E ok \in BOOLEAN :
         /\ SaveSession(ok)
         /\ turn_result' = TurnEnd(consumer, stream, ok)
    /\ tpc' = "idle"
    /\ UNCHANGED <<consumer, hashSeed, now, stream, structured_messages,
                   terminal_messages, event_history, active_agent,
                   completed_agents, console, processed_message_ids,
                   logger_events, emitCount, turnCount, eventCount,
                   resetCount, rejectCount>>

\* A user input handed to a web consumer while its turn is running: the
\* workflow_running check comes first and turns it away with a warning; an
\* admitted input would be logged, appended and passed to the executor.
InputWhileRunning(u) ==
    /\ tpc = "streaming"
    /\ consumer \in WebConsumers
    /\ Spent + 1 <= MaxInputs
    /\ rejectCount' = rejectCount + 1
    /\ IF AdmitsInput
         THEN /\ structured_messages' =
                   Append(structured_messages, CreateUserMessage(u, now))
              /\ logger_events' =
                   IF consumer = "webapp" THEN log_user_input(logger_events, u)
                   ELSE logger_events
              /\ turnCount' = turnCount + 1
         ELSE UNCHANGED <<structured_messages, logger_events, turnCount>>
    /\ UNCHANGED <<consumer, hashSeed, now, tpc, stream, workflow_running,
                   terminal_messages, event_history, active_agent,
                   completed_agents, console, processed_message_ids, disk,
                   emitCount, eventCount, last_save, turn_result, resetCount>>

\* reset_session of the web app between turns: the log session is ended
\* (saved, then dropped), the chat state is cleared and the app goes back to
\* the model selection.
ResetSession ==
    /\ tpc = "idle"
    /\ consumer \in WebConsumers
    /\ Spent + 1 <= MaxInputs
    /\ resetCount' = resetCount + 1
    /\ \E ok \in BOOLEAN : SaveSession(ok)
    /\ logger_events' = <<>>
    /\ structured_messages' = <<>>
    /\ terminal_messages' = <<>>
    /\ event_history' = <<>>
    /\ workflow_running' = FALSE
    /\ active_agent' = "none"
    /\ completed_agents' = <<>>
    /\ tpc' = "model_selection"
    /\ UNCHANGED <<consumer, hashSeed, now, stream, console,
                   processed_message_ids, emitCount, turnCount, eventCount,
                   turn_result, rejectCount>>

\* initialize_executor_async after the model selection: logger.start_session
\* opens a new session with no events, under a new file.
InitializeExecutor ==
    /\ tpc = "model_selection"
    /\ logger_events' = <<>>
    /\ disk' = NoFile
    /\ tpc' = "idle"
    /\ UNCHANGED <<consumer, hashSeed, now, stream, workflow_running,
                   structured_messages, terminal_messages, event_history,
                   active_agent, completed_agents, console,
                   processed_message_ids, emitCount, turnCount, eventCount,
                   last_save, turn_result, resetCount, rejectCount>>

(***************************************************************************)
(* ------------------------------  REPLAY  ------------------------------- *)
(*   "simple"   src/src/utils/logging/simple_replay.py  SimpleReplaySystem *)
(*   "manager"  src/ex_version/web/components/chat_replay.py ReplayManager *)
(*   "chat"     src/frontend/components/chat_replay.py SimpleReplayManager *)
(* A saved session is loaded, its events are walked in order and the chat  *)
(* is rebuilt from them.                                                   *)
(***************************************************************************)
VARIABLES
    replayer,          \* which replay implementation runs
    rpc,               \* "ready", "running", "done", "stopped"
    replay_session,    \* st.session_state.replay_session: the loaded events
    replay_i,          \* events of the session walked so far
    replay_messages,   \* ReplayManager: the local list of rebuilt messages
    backup_messages,   \* st.session_state.backup_messages
    chat_before_replay,\* structured_messages as it was when replay mode was entered
    restarts           \* start_replay calls made while replay mode was on

replayVars == <<replayer, rpc, replay_session, replay_i, replay_messages,
                backup_messages, chat_before_replay, restarts>>

\* Bound of the replay model: start_replay calls during replay mode.
MaxRestarts == 1

\* Bound of the replay model: the length of a saved session.
MaxLogLen == 3

Replayers == {"simple", "manager", "chat"}

\* The events a MinimalLogger session holds (minimal_logger.py EventType).
MinimalEvents ==
    {LogEvent("user_input", "none", "none", c) : c \in Contents}
    \cup {LogEvent("agent_response", a, "none", c) : a \in AgentNames, c \in Contents}
    \cup {LogEvent("tool_command", "none", tn, c) : tn \in ToolNames, c \in Contents}
    \cup {LogEvent("tool_output", "none", tn, c) : tn \in ToolNames, c \in Contents}

\* The events a ConversationLogger session holds (conversation_logger.py
\* EventType): the three message kinds and the workflow markers.
ConversationEvents ==
    {LogEvent("user_input", "none", "none", c) : c \in Contents}
    \cup {LogEvent("agent_response", a, "none", c) : a \in AgentNames, c \in Contents}
    \cup {LogEvent("tool_execution", "none", tn, c) : tn \in ToolNames, c \in Contents}
    \cup {LogEvent("workflow_start", "none", "none", <<"", "">>)}

SessionEvents(r) == IF r = "chat" THEN ConversationEvents ELSE MinimalEvents

SeqsUpTo(S, n) == UNION {[1..k -> S] : k \in 0..n}

\* The kinds of event that stand for a message of the conversation.
MessageKinds == {"user_input", "agent_response", "tool_command", "tool_output",
                 "tool_execution"}

\* `name or default`
OrDefault(n, d) == IF n = "none" THEN d ELSE n

\* f"Command: {content}"
WithCommandPrefix(c) ==
    <<CASE c[1] = "scan" -> "Command: scan"
        [] OTHER -> "Command: ", c[2]>>

NoMessage == [type |-> "none"]

\* SimpleReplaySystem._convert_to_frontend_message, at wall-clock time t.
ConvertToFrontendMessage(ev, t) ==
    CASE ev.event_type = "user_input" ->
           [type |-> "user", agent_id |-> "none", tool_name |-> "none",
            content |-> ev.content, id |-> NoId]
      [] ev.event_type = "agent_response" ->
           [type |-> "agent",
            agent_id |-> IF ev.agent_name = "none" THEN "agent" ELSE Lower(ev.agent_name),
            tool_name |-> "none", content |-> ev.content,
            id |-> <<"replay_agent", ev.agent_name, NoId, t>>]
      [] ev.event_type = "tool_command" ->
           [type |-> "tool_command", agent_id |-> "none",
            tool_name |-> OrDefault(ev.tool_name, "Tool"), content |-> ev.content,
            id |-> <<"replay_tool_cmd", ev.tool_name, NoId, t>>]
      [] ev.event_type = "tool_output" ->
           [type |-> "tool_output", agent_id |-> "none",
            tool_name |-> OrDefault(ev.tool_name, "Tool"), content |-> ev.content,
            id |-> <<"replay_tool_out", ev.tool_name, NoId, t>>]
      [] OTHER -> NoMessage

\* ReplayManager._convert_to_executor_event
ConvertToExecutorEvent(ev) ==
    CASE ev.event_type = "user_input" ->
           MessageEvent("user", "User", "none", ev.content, "none")
      [] ev.event_type = "agent_response" ->
           MessageEvent("ai", OrDefault(ev.agent_name, "Agent"), "none", ev.content, "none")
      [] ev.event_type = "tool_command" ->
           MessageEvent("tool", "Tool", OrDefault(ev.tool_name, "Unknown Tool"),
                        WithCommandPrefix(ev.content), "none")
      [] ev.event_type = "tool_output" ->
           MessageEvent("tool", "Tool", OrDefault(ev.tool_name, "Tool Output"),
                        ev.content, "none")
      [] OTHER -> NoEvent

\* SimpleReplayManager._convert_event_to_frontend_message
ConvertEventToFrontendMessage(ev) ==
    CASE ev.event_type = "user_input" ->
           [type |-> "user", agent_id |-> "none", tool_name |-> "none",
            content |-> ev.content, id |-> NoId]
      [] ev.event_type = "agent_response" ->
           [type |-> "ai", agent_id |-> OrDefault(ev.agent_name, "Agent"),
            tool_name |-> "none", content |-> ev.content, id |-> NoId]
      [] ev.event_type = "tool_execution" ->
           [type |-> "tool", agent_id |-> "none",
            tool_name |-> OrDefault(ev.tool_name, "Tool"), content |-> ev.content,
            id |-> NoId]
      [] OTHER -> NoMessage

\* SimpleReplaySystem._update_agent_status: the agent shown so far is marked
\* completed and the event's agent becomes the active one.
ReplayUpdateAgentStatus(a) ==
    /\ completed_agents' =
         IF active_agent # "none" /\ active_agent \notin Range(completed_agents)
           THEN Append(completed_agents, active_agent)
           ELSE completed_agents
    /\ active_agent' = Lower(a)

ReplayRest ==
    /\ rpc = "ready"
    /\ replay_i = 0
    /\ replay_messages = <<>>
    /\ backup_messages = <<>>
    /\ chat_before_replay = <<>>
    /\ restarts = 0

\* A saved session has been picked for replay.
ReplayInit ==
    /\ replayer \in Replayers
    /\ replay_session \in SeqsUpTo(SessionEvents(replayer), MaxLogLen)
    /\ ReplayRest

\* The replay subsystem at rest, for the specifications of the others.
ReplayIdle ==
    /\ replayer = "simple"
    /\ replay_session = <<>>
    /\ ReplayRest

\* start_replay: the chat is backed up and emptied, the agent status reset.
StartReplay ==
    /\ rpc = "ready"
    /\ rpc' = "running"
    /\ backup_messages' = structured_messages
    /\ chat_before_replay' = structured_messages
    /\ structured_messages' = <<>>
    /\ active_agent' = "none"
    /\ completed_agents' = <<>>
    /\ replay_i' = 0
    /\ replay_messages' = <<>>
    /\ UNCHANGED <<replayer, replay_session, now, restarts>>

\* start_replay is called again while replay mode is on (the page is run
\* again before stop_replay, or another session is picked in the log view):
\* the same statements run.
RestartReplay ==
    /\ rpc \in {"running", "done"}
    /\ restarts < MaxRestarts
    /\ restarts' = restarts + 1
    /\ rpc' = "running"
    /\ backup_messages' = structured_messages
    /\ structured_messages' = <<>>
    /\ active_agent' = "none"
    /\ completed_agents' = <<>>
    /\ replay_i' = 0
    /\ replay_messages' = <<>>
    /\ UNCHANGED <<replayer, replay_session, now, chat_before_replay>>

\* SimpleReplaySystem.execute_replay, one pass of its loop.
SimpleStep(ev, t) ==
    LET m == ConvertToFrontendMessage(ev, t) IN
    /\ IF m # NoMessage
         THEN /\ structured_messages' = Append(structured_messages, m)
              /\ IF ev.agent_name # "none"
                   THEN ReplayUpdateAgentStatus(ev.agent_name)
                   ELSE UNCHANGED <<active_agent, completed_agents>>
         ELSE UNCHANGED <<structured_messages, active_agent, completed_agents>>
    /\ UNCHANGED replay_messages

\* ReplayManager._execute_replay_with_executor, one pass of its loop.
ManagerStep(ev, t) ==
    LET e == ConvertToExecutorEvent(ev) IN
    /\ IF e # NoEvent /\ ~IsDuplicateMessage(ProcessCliEvent(e, t), replay_messages)
         THEN replay_messages' = Append(replay_messages, ProcessCliEvent(e, t))
         ELSE UNCHANGED replay_messages
    /\ UNCHANGED <<structured_messages, active_agent, completed_agents>>

\* SimpleReplayManager.auto_replay_workflow, one pass of its loop.
ChatStep(ev) ==
    LET m == ConvertEventToFrontendMessage(ev) IN
    /\ IF m # NoMessage
         THEN /\ structured_messages' = Append(structured_messages, m)
              /\ IF ev.agent_name # "none"
                   THEN ReplayUpdateAgentStatus(ev.agent_name)
                   ELSE UNCHANGED <<active_agent, completed_agents>>
         ELSE UNCHANGED <<structured_messages, active_agent, completed_agents>>
    /\ UNCHANGED replay_messages

\* The replay loop handles the next event of the loaded session.
ReplayStep ==
    /\ rpc = "running"
    /\ replay_i < Len(replay_session)
    /\ replay_i' = replay_i + 1
    /\ \E dt \in 0..1 :
         /\ Tick(dt)
         /\ LET ev == replay_session[replay_i + 1] IN
            IF replayer = "simple" THEN SimpleStep(ev, now + dt)
            ELSE IF replayer = "manager" THEN ManagerStep(ev, now + dt)
            ELSE ChatStep(ev)
    /\ UNCHANGED <<replayer, rpc, replay_session, backup_messages,
                   chat_before_replay, restarts>>

\* The agents whose messages the ReplayManager kept, in order of first
\* appearance (the keys of its agent_activity dict).
RECURSIVE AgentActivityKeys(_)
AgentActivityKeys(msgs) ==
    IF msgs = <<>> THEN <<>>
    ELSE LET rest == AgentActivityKeys(SubSeq(msgs, 1, Len(msgs) - 1))
             m == msgs[Len(msgs)]
             a == IF m.type = "ai" THEN m.agent_id
                  ELSE IF m.type = "user" THEN "user" ELSE "tool"
         IN IF a \in Range(rest) THEN rest ELSE Append(rest, a)

\* The loop is over.  The ReplayManager publishes its list and derives the
\* agent status from the agents it saw; the others have nothing left to do.
FinishReplay ==
    /\ rpc = "running"
    /\ replay_i = Len(replay_session)
    /\ rpc' = "done"
    /\ IF replayer = "manager" /\ replay_session # <<>>
         THEN /\ structured_messages' = replay_messages
              /\ LET keys == AgentActivityKeys(replay_messages) IN
                 IF keys = <<>>
                   THEN UNCHANGED <<active_agent, completed_agents>>
                   ELSE /\ active_agent' = keys[Len(keys)]
                        /\ completed_agents' = SubSeq(keys, 1, Len(keys) - 1)
         ELSE UNCHANGED <<structured_messages, active_agent, completed_agents>>
    /\ UNCHANGED <<replayer, replay_session, replay_i, replay_messages,
                   backup_messages, now, chat_before_replay, restarts>>

\* stop_replay: the chat the replay displaced is restored.
StopReplay ==
    /\ rpc = "done"
    /\ rpc' = "stopped"
    /\ structured_messages' = backup_messages
    /\ backup_messages' = <<>>
    /\ UNCHANGED <<replayer, replay_session, replay_i, replay_messages,
                   active_agent, completed_agents, now, chat_before_replay,
                   restarts>>

\* What the replay actions leave alone in the turn subsystem.
turnVarsNotReplayed ==
    <<consumer, hashSeed, tpc, stream, workflow_running, terminal_messages,
      event_history, console, processed_message_ids, logger_events, disk,
      emitCount, turnCount, eventCount, last_save, turn_result, resetCount,
      rejectCount>>

(***************************************************************************)
(* -----------------------  THREADS AND THE GRAPH  ----------------------- *)
(* The thread a turn runs on and the agent graph that runs it.  The new    *)
(* chat started after a replay is src/frontend/web/app.py (run_main_app)   *)
(* and src/app.py.  The executor, the checkpointer, create_thread_config   *)
(* and the handoff tools are not part of the sources at hand: they follow  *)
(* the design document, sections 4.3 to 4.6 and 5.                         *)
(***************************************************************************)
VARIABLES
    thread_config,     \* st.session_state.thread_config
    uuidCount,         \* uuid4 values drawn so far
    replay_completed,  \* st.session_state.replay_completed
    checkpointer,      \* thread_id -> the ThreadState saved last
    gpc,               \* "idle", "llm", "tools", "complete", "halted"
    wmessages,         \* the running turn's messages
    wagent,            \* the running turn's current_agent_name
    pending,           \* tool calls of the last assistant message still to run
    nextCallId,        \* tool_call ids handed out so far
    loaded,            \* history: the messages the running turn loaded
    chatTurns,         \* history: turns started on the current thread_config
    pastThreadIds,     \* history: the thread ids a new chat has replaced
    graphTurns,        \* turns started so far
    resetMark          \* history: "reset" from a session reset to the next turn

threadVars == <<thread_config, uuidCount, replay_completed, checkpointer, gpc,
                wmessages, wagent, pending, nextCallId, loaded,
                chatTurns, pastThreadIds, graphTurns, resetMark>>

\* Bounds of the thread model: turns started, tool calls asked for, new chats.
MaxGraphTurns == 2
MaxToolCalls == 3
MaxNewChats == 1

\* st.session_state.user_id: "user_" and eight hex digits.
user_id == <<"user_", "0a1b2c3d">>

\* str(uuid.uuid4()): a value no earlier call has returned.
uuid4(n) == <<"uuid4", n>>

\* create_thread_config(user_id, conversation_id): the thread id is the
\* concatenation "thread_" + user_id + "_" + conversation_id, and a missing
\* conversation id stands for "default".
create_thread_config(uid, conversation_id) ==
    LET cid == IF conversation_id = <<>> THEN <<"default">> ELSE conversation_id
    IN [thread_id |-> <<"thread_">> \o uid \o <<"_">> \o cid]

DefaultAgent == "Planner"
FreshState == [messages |-> <<>>, current_agent_name |-> DefaultAgent]

\* Checkpointer.load / Checkpointer.save
Load(tid) == IF tid \in DOMAIN checkpointer THEN checkpointer[tid] ELSE FreshState
Save(tid, st) ==
    [t \in DOMAIN checkpointer \cup {tid} |-> IF t = tid THEN st ELSE checkpointer[t]]

UserMsg == [kind |-> "user", agent |-> "none", calls |-> <<>>, call_id |-> 0,
            target |-> "none", content |-> "text"]
AssistantMsg(a, calls) ==
    [kind |-> "assistant", agent |-> a, calls |-> calls, call_id |-> 0,
     target |-> "none", content |-> "text"]
ToolResultMsg(c, content) ==
    [kind |-> "tool", agent |-> "none", calls |-> <<>>, call_id |-> c.id,
     target |-> c.target, content |-> content]

\* What an LLM response may ask for: an ordinary tool ("none") or a handoff
\* to another agent of the swarm.
CallTargets(a) == {"none"} \cup (AgentNames \ {a})
CallPlans(a) == UNION {[1..k -> CallTargets(a)] : k \in 0..MaxToolCalls}
MakeCalls(plan, base) == [i \in 1..Len(plan) |-> [id |-> base + i, target |-> plan[i]]]

ThreadRest ==
    /\ uuidCount = 0
    /\ replay_completed = FALSE
    /\ checkpointer = << >>
    /\ gpc = "idle"
    /\ wmessages = <<>>
    /\ wagent = "none"
    /\ pending = <<>>
    /\ nextCallId = 0
    /\ loaded = <<>>
    /\ chatTurns = 0
    /\ pastThreadIds = {}
    /\ graphTurns = 0
    /\ resetMark = "none"

\* _initialize_user_session: the default conversation.
ThreadInit ==
    /\ thread_config = create_thread_config(user_id, <<>>)
    /\ ThreadRest

ThreadIdle == ThreadInit

\* Executor.execute, steps 1 and 2: the ThreadState of the configured thread
\* is loaded, or created fresh, and the user's message appended.
BeginTurn ==
    /\ gpc = "idle"
    /\ ~replay_completed
    /\ graphTurns < MaxGraphTurns
    /\ graphTurns' = graphTurns + 1
    /\ chatTurns' = chatTurns + 1
    /\ LET st == Load(thread_config.thread_id) IN
         /\ loaded' = st.messages
         /\ wmessages' = Append(st.messages, UserMsg)
         /\ wagent' = st.current_agent_name
    /\ pending' = <<>>
    /\ gpc' = "llm"
    /\ UNCHANGED <<thread_config, uuidCount, replay_completed, checkpointer,
                   nextCallId, pastThreadIds>>
    /\ resetMark' = "none"

\* One LLM call of the active agent: an assistant message with the tool
\* calls it asks for.  Without tool calls the react loop, and the turn, ends.
LLMStep(plan) ==
    /\ gpc = "llm"
    /\ plan \in CallPlans(wagent)
    /\ nextCallId + Len(plan) <= MaxToolCalls
    /\ LET calls == MakeCalls(plan, nextCallId) IN
         /\ wmessages' = Append(wmessages, AssistantMsg(wagent, calls))
         /\ pending' = calls
         /\ nextCallId' = nextCallId + Len(calls)
         /\ gpc' = IF calls = <<>> THEN "complete" ELSE "tools"
    /\ UNCHANGED <<thread_config, uuidCount, replay_completed, checkpointer,
                   wagent, loaded, chatTurns, pastThreadIds, graphTurns,
                   resetMark>>

\* A faulty variant of AfterCall: the handoff's result is recorded and the pointer is
\* left for later.
AfterCallPointerLater(a, c) == a

\* current_agent_name after the tool call c has been run by agent a: a
\* handoff moves it to the target together with its ToolResult.
AfterCall(a, c) == IF c.target = "none" THEN a ELSE c.target

\* The shell tools: command_execution runs `docker exec attacker sh -c`, the
\* tool server's command_exec is reached through its MCP client.
ShellTools == {"command_execution", "command_exec"}

\* What the environment makes of one invocation of a shell tool.
ToolEnvs == {"ok", "docker_unavailable", "no_container", "start_failed",
             "nonzero_exit", "docker_not_found", "exception"}

ToolReturn(text) == [raised |-> FALSE, text |-> text]
ToolRaise(text) == [raised |-> TRUE, text |-> text]

\* command_execution(command): every failure comes back as a "[-] ..." text.
CommandExecution(env) ==
    CASE env = "ok" -> ToolReturn("stdout")
      [] env = "docker_unavailable" -> ToolReturn("[-] Docker is not available")
      [] env = "no_container" -> ToolReturn("[-] Container does not exist")
      [] env = "start_failed" -> ToolReturn("[-] Failed to start container")
      [] env = "nonzero_exit" -> ToolReturn("[-] Command execution error")
      [] env = "docker_not_found" -> ToolReturn("[-] Docker command not found")
      [] OTHER -> ToolReturn("[-] Error")

\* command_exec of the tool server as its client sees it: the pane text, or
\* the exception the server raised.
CommandExec(env) ==
    IF env = "ok" THEN ToolReturn("pane")
    ELSE ToolRaise("Failed to execute command")

InvokeTool(tool, env) ==
    IF tool = "command_execution" THEN CommandExecution(env) ELSE CommandExec(env)

\* A faulty variant of OnToolFailure: an exception of a tool halts the run.
OnToolFailureHalt == "halt"

\* What the tool node makes of a tool that raised: a ToolResult carrying the
\* error, and the loop goes on.
OnToolFailure == "tool_result"

\* The content of the ToolResult of an invocation: the command's output, or
\* the text of the failure.
ToolResultContent(res) ==
    IF res.raised \/ res.text \notin {"stdout", "pane"} THEN "failure" ELSE "output"

\* The next tool call of the assistant message is run: it produces one
\* ToolResult (a failed tool produces one carrying the error text).
ToolStep ==
    /\ gpc = "tools"
    /\ pending # <<>>
    /\ \E tool \in ShellTools, env \in ToolEnvs :
         LET c == Head(pending)
             res == IF c.target = "none" THEN InvokeTool(tool, env)
                    ELSE ToolReturn("stdout")
         IN IF res.raised /\ OnToolFailure = "halt"
              THEN /\ gpc' = "halted"
                   /\ UNCHANGED <<wmessages, wagent, pending>>
              ELSE /\ wmessages' = Append(wmessages,
                                          ToolResultMsg(c, ToolResultContent(res)))
                   /\ wagent' = AfterCall(wagent, c)
                   /\ pending' = Tail(pending)
                   /\ gpc' = IF Tail(pending) = <<>> THEN "llm" ELSE "tools"
    /\ UNCHANGED <<thread_config, uuidCount, replay_completed, checkpointer,
                   nextCallId, loaded, chatTurns, pastThreadIds,
                   graphTurns,
                   resetMark>>

\* Executor.execute, steps 5 and 6: WorkflowComplete has been yielded and the
\* ThreadState is saved.
Persist ==
    /\ gpc = "complete"
    /\ checkpointer' = Save(thread_config.thread_id,
                            [messages |-> wmessages, current_agent_name |-> wagent])
    /\ gpc' = "idle"
    /\ wmessages' = <<>>
    /\ wagent' = "none"
    /\ pending' = <<>>
    /\ UNCHANGED <<thread_config, uuidCount, replay_completed,
                   nextCallId, loaded, chatTurns, pastThreadIds, graphTurns,
                   resetMark>>

\* A faulty variant of AbortedState: the turn's partial state is saved.
AbortedStatePartial(prior, partial) == partial

\* What the checkpointer holds after a turn that failed or was cancelled: the
\* ThreadState of before the turn.
AbortedState(prior, partial) == prior

\* The turn fails (Error) or the consumer abandons the stream (Cancelled).
Abort ==
    /\ gpc \in {"llm", "tools", "complete", "halted"}
    /\ checkpointer' =
         IF thread_config.thread_id \in DOMAIN checkpointer
           THEN Save(thread_config.thread_id,
                     AbortedState(checkpointer[thread_config.thread_id],
                                  [messages |-> wmessages,
                                   current_agent_name |-> wagent]))
           ELSE checkpointer
    /\ gpc' = "idle"
    /\ wmessages' = <<>>
    /\ wagent' = "none"
    /\ pending' = <<>>
    /\ UNCHANGED <<thread_config, uuidCount, replay_completed,
                   nextCallId, loaded, chatTurns, pastThreadIds, graphTurns,
                   resetMark>>

\* A saved session has been replayed to its end in this browser session.
ReplayCompleted ==
    /\ gpc = "idle"
    /\ ~replay_completed
    /\ uuidCount < MaxNewChats
    /\ replay_completed' = TRUE
    /\ UNCHANGED <<thread_config, uuidCount, checkpointer, gpc, wmessages,
                   wagent, pending, nextCallId, loaded, chatTurns,
                   pastThreadIds, graphTurns,
                   resetMark>>

\* reset_session as the thread sees it: the DirectExecutor is replaced and the
\* replay flags are dropped.  thread_config and user_id are not among the keys
\* it resets, and the checkpointer belongs to the process, not to the executor.
ResetExecutor ==
    /\ gpc = "idle"
    /\ resetMark = "none"
    /\ graphTurns < MaxGraphTurns
    /\ replay_completed' = FALSE
    /\ resetMark' = "reset"
    /\ UNCHANGED <<thread_config, uuidCount, checkpointer, gpc, wmessages,
                   wagent, pending, nextCallId, loaded, chatTurns,
                   pastThreadIds, graphTurns>>

\* A faulty variant of NewChatConfig: the new chat keeps the thread configuration.
NewChatConfigKept(old, n) == old

\* "Start New Chat": the thread configuration of the new chat.
NewChatConfig(old, n) == create_thread_config(user_id, uuid4(n))

\* "Start New Chat" after a replay: the chat state is cleared, the thread
\* configuration replaced, the logging session closed and a new one opened.
NewChat ==
    /\ gpc = "idle"
    /\ replay_completed
    /\ uuidCount < MaxNewChats
    /\ replay_completed' = FALSE
    /\ structured_messages' = <<>>
    /\ terminal_messages' = <<>>
    /\ event_history' = <<>>
    /\ active_agent' = "none"
    /\ completed_agents' = <<>>
    /\ workflow_running' = FALSE
    /\ uuidCount' = uuidCount + 1
    /\ thread_config' = NewChatConfig(thread_config, uuidCount + 1)
    /\ pastThreadIds' = pastThreadIds \cup {thread_config.thread_id}
    /\ chatTurns' = 0
    /\ logger_events' = <<>>
    /\ disk' = NoFile
    /\ UNCHANGED <<checkpointer, gpc, wmessages, wagent, pending,
                   nextCallId, loaded, graphTurns,
                   resetMark>>

\* What NewChat leaves alone in the turn subsystem.
turnVarsNotCleared ==
    <<consumer, hashSeed, now, tpc, stream, console, processed_message_ids,
      emitCount, turnCount, eventCount, last_save, turn_result, resetCount,
      rejectCount>>

\* Every tool call of the messages has its ToolResult.
NoOrphanCalls(msgs) ==
    \A i \in 1..Len(msgs) :
        \A k \in 1..Len(msgs[i].calls) :
            \E j \in (i + 1)..Len(msgs) :
                msgs[j].kind = "tool" /\ msgs[j].call_id = msgs[i].calls[k].id

\* The target of the latest handoff ToolResult of the messages, or the default
\* agent when there is none.
RECURSIVE LastHandoffTarget(_)
LastHandoffTarget(msgs) ==
    IF msgs = <<>> THEN DefaultAgent
    ELSE IF msgs[Len(msgs)].kind = "tool" /\ msgs[Len(msgs)].target # "none"
      THEN msgs[Len(msgs)].target
      ELSE LastHandoffTarget(SubSeq(msgs, 1, Len(msgs) - 1))

(***************************************************************************)
(* ------------------------  DUPLICATE CHECK  ---------------------------- *)
(* CLIMessageProcessor.is_duplicate_message (src/frontend/message.py) as a *)
(* function of its two arguments.                                          *)
(***************************************************************************)
VARIABLES
    new_message,        \* the argument new_message
    existing_messages,  \* the argument existing_messages
    dup_result          \* "none" before the call, then "True" or "False"

dedupVars == <<new_message, existing_messages, dup_result>>

\* Bound of the duplicate check: the length of existing_messages.
MaxExisting == 2

\* The messages the check is called on: with or without an id, of an agent or
\* without agent_id (tool and user messages carry none).
DedupMessages ==
    [type : {"ai", "tool"}, agent_id : {"none", "planner"}, tool_name : {"none"},
     content : Contents, id : {NoId, <<"id1">>}]

DedupRest == dup_result = "none"

DedupInit ==
    /\ new_message \in DedupMessages
    /\ existing_messages \in SeqsUpTo(DedupMessages, MaxExisting)
    /\ DedupRest

\* The duplicate check at rest, for the specifications of the others.
DedupIdle ==
    /\ new_message = [type |-> "ai", agent_id |-> "none", tool_name |-> "none",
                      content |-> <<"scan", "">>, id |-> NoId]
    /\ existing_messages = <<>>
    /\ DedupRest

\* is_duplicate_message(new_message, existing_messages) is called and returns.
CheckDuplicate ==
    /\ dup_result = "none"
    /\ dup_result' = IF IsDuplicateMessage(new_message, existing_messages)
                     THEN "True" ELSE "False"
    /\ UNCHANGED <<new_message, existing_messages>>

(***************************************************************************)
(* --------------------------  SESSION LOGS  ----------------------------- *)
(* MinimalLogger (src/src/utils/logging/minimal_logger.py) and the files   *)
(* it writes under logs/YYYY/MM/DD/.  ConversationLogger builds its paths  *)
(* and appends its events the same way.                                    *)
(***************************************************************************)
VARIABLES
    current_session,   \* logger.current_session: NoSession or [session_id, events]
    log_files,         \* the files under logs/: path -> the events saved in it
    today,             \* the date datetime.now() gives
    sessionsStarted    \* uuid4 values start_session has drawn

logVars == <<current_session, log_files, today, sessionsStarted>>

\* Bounds of the log model: days, sessions started, events of one session.
MaxDays == 2
MaxSessions == 1
MaxEvents == 2

NoSession == [session_id |-> 0, events |-> <<>>]
LoggedKinds == {"user_input", "agent_response"}

\* _get_session_file_path: logs/<date of the call>/session_<id>.json
SessionFilePath(date, id) == <<"logs", date, id>>

\* A faulty variant of AddEvent: the new event is put in front.
AddEventInFront(events, e) == <<e>> \o events

\* self.current_session.events.append(event)
AddEvent(events, e) == Append(events, e)

\* open(path, "w") and json.dump: the file is created or replaced.
WriteFile(files, path, events) ==
    [p \in DOMAIN files \cup {path} |-> IF p = path THEN events ELSE files[p]]

LogRest ==
    /\ current_session = NoSession
    /\ log_files = <<>>
    /\ today = 1
    /\ sessionsStarted = 0

LogInit == LogRest
LogIdle == LogRest

\* start_session: a new session under a new uuid replaces the current one.
LoggerStartSession ==
    /\ sessionsStarted < MaxSessions
    /\ sessionsStarted' = sessionsStarted + 1
    /\ current_session' = [session_id |-> sessionsStarted + 1, events |-> <<>>]
    /\ UNCHANGED <<log_files, today>>

\* log_user_input, log_agent_response, ...: without a session nothing happens.
LoggerLog(k) ==
    /\ current_session # NoSession
    /\ Len(current_session.events) < MaxEvents
    /\ current_session' =
         [current_session EXCEPT !.events = AddEvent(current_session.events, k)]
    /\ UNCHANGED <<log_files, today, sessionsStarted>>

\* save_session: the file of today's directory is written, or the write fails
\* and the files stay as they are; without a session False is returned.
LoggerSaveSession(ok) ==
    /\ current_session # NoSession
    /\ log_files' =
         IF ok
           THEN WriteFile(log_files,
                          SessionFilePath(today, current_session.session_id),
                          current_session.events)
           ELSE log_files
    /\ UNCHANGED <<current_session, today, sessionsStarted>>

\* end_session: save, then drop the session.
LoggerEndSession(ok) ==
    /\ current_session # NoSession
    /\ log_files' =
         IF ok
           THEN WriteFile(log_files,
                          SessionFilePath(today, current_session.session_id),
                          current_session.events)
           ELSE log_files
    /\ current_session' = NoSession
    /\ UNCHANGED <<today, sessionsStarted>>

\* The date changes while the process runs.
Midnight ==
    /\ today < MaxDays
    /\ today' = today + 1
    /\ UNCHANGED <<current_session, log_files, sessionsStarted>>

(***************************************************************************)
(* -------------------------  DATA COLLECTION  --------------------------- *)
(* DataCollector and PrivacyManager                                        *)
(* (src/src/utils/logging/data_collector.py).  The collector's methods run *)
(* as asyncio tasks on one event loop: a task gives way to the others only *)
(* at an await, which in these methods is the call of _send_to_server.     *)
(***************************************************************************)
VARIABLES
    enable_collection, \* DataCollector.enable_collection
    pending_queue,     \* DataCollector.pending_queue, oldest item first
    queue_file,        \* the backup file: NoQueueFile (no item is 0) or the items saved
    collected,         \* sessions handed to collect_session so far
    collect_result,    \* what the last collect_session returned
    fpc,               \* flush_queue: "idle", "sending" (at the await), "returned"
    batch,             \* flush_queue's local batch
    sent_count,        \* flush_queue's local sent_count
    failed_count,      \* flush_queue's local failed_count
    queue_at_start,    \* the queue as the running flush found it
    sent_items,        \* the items of the batches the server accepted in this flush
    disturbed,         \* another task has changed the queue during this flush
    flushes,           \* flush_queue calls so far
    loads              \* load_queue_from_file calls so far

collectorVars == <<enable_collection, pending_queue, queue_file, collected,
                   collect_result, fpc, batch, sent_count, failed_count,
                   queue_at_start, sent_items, disturbed, flushes, loads>>

\* max_queue_size and batch_size, scaled down, and the bounds of the
\* collector model: sessions collected, flushes, loads.
MaxQueueSize == 3
BatchSize == 2
MaxCollected == 4
MaxFlushes == 1
MaxLoads == 1

NoQueueFile == <<0>>

Take(q, n) == SubSeq(q, 1, IF Len(q) < n THEN Len(q) ELSE n)
Drop(q, n) == SubSeq(q, (IF Len(q) < n THEN Len(q) ELSE n) + 1, Len(q))

\* A faulty variant of Enqueue: the item is appended whatever the size.
EnqueueUnlimited(q, item) == Append(q, item)

\* collect_session: append, then pop(0) if the queue is over max_queue_size.
Enqueue(q, item) ==
    LET a == Append(q, item)
    IN IF Len(a) > MaxQueueSize THEN Tail(a) ELSE a

\* load_queue_from_file: extend, then keep the last max_queue_size items.
ExtendLimited(q, items) ==
    LET a == q \o items
    IN IF Len(a) > MaxQueueSize THEN Drop(a, Len(a) - MaxQueueSize) ELSE a

\* A faulty variant of Requeue: the failed batch is put behind the queue.
RequeueAtBack(b, q) == q \o b

\* flush_queue: self.pending_queue = batch + self.pending_queue
Requeue(b, q) == b \o q

CollectorRest ==
    /\ pending_queue = <<>>
    /\ queue_file = NoQueueFile
    /\ collected = 0
    /\ collect_result = "none"
    /\ fpc = "idle"
    /\ batch = <<>>
    /\ sent_count = 0
    /\ failed_count = 0
    /\ queue_at_start = <<>>
    /\ sent_items = <<>>
    /\ disturbed = FALSE
    /\ flushes = 0
    /\ loads = 0

CollectorInit == enable_collection \in BOOLEAN /\ CollectorRest
CollectorIdle == enable_collection = FALSE /\ CollectorRest

\* The queue is changed by a task other than the flush waiting at its await.
Disturbs == disturbed' = (disturbed \/ fpc = "sending")

\* collect_session(session, immediate_send): session number collected + 1.
CollectSession(immediate, ok) ==
    /\ collected < MaxCollected
    /\ collected' = collected + 1
    /\ IF ~enable_collection
         THEN /\ collect_result' = "False"
              /\ UNCHANGED <<pending_queue, disturbed>>
         ELSE IF immediate
           THEN /\ collect_result' = IF ok THEN "True" ELSE "False"
                /\ UNCHANGED <<pending_queue, disturbed>>
           ELSE /\ pending_queue' = Enqueue(pending_queue, collected + 1)
                /\ collect_result' = "True"
                /\ Disturbs
    /\ UNCHANGED <<enable_collection, queue_file, fpc, batch, sent_count,
                   failed_count, queue_at_start, sent_items, flushes, loads>>

\* save_queue_to_file: an empty queue writes nothing.
SaveQueueToFile(ok) ==
    /\ pending_queue # <<>>
    /\ ok
    /\ queue_file # pending_queue
    /\ queue_file' = pending_queue
    /\ UNCHANGED <<enable_collection, pending_queue, collected, collect_result,
                   fpc, batch, sent_count, failed_count, queue_at_start,
                   sent_items, disturbed, flushes, loads>>

\* load_queue_from_file: a file that cannot be read changes nothing.
LoadQueueFromFile ==
    /\ loads < MaxLoads
    /\ loads' = loads + 1
    /\ IF queue_file = NoQueueFile
         THEN UNCHANGED <<pending_queue, disturbed>>
         ELSE /\ pending_queue' = ExtendLimited(pending_queue, queue_file)
              /\ Disturbs
    /\ UNCHANGED <<enable_collection, queue_file, collected, collect_result,
                   fpc, batch, sent_count, failed_count, queue_at_start,
                   sent_items, flushes>>

\* flush_queue up to its first await: the first batch is taken off the queue.
FlushBegin ==
    /\ fpc \in {"idle", "returned"}
    /\ flushes < MaxFlushes
    /\ flushes' = flushes + 1
    /\ sent_count' = 0
    /\ failed_count' = 0
    /\ queue_at_start' = pending_queue
    /\ sent_items' = <<>>
    /\ disturbed' = FALSE
    /\ IF pending_queue = <<>>
         THEN /\ fpc' = "returned"
              /\ batch' = <<>>
              /\ UNCHANGED pending_queue
         ELSE /\ fpc' = "sending"
              /\ batch' = Take(pending_queue, BatchSize)
              /\ pending_queue' = Drop(pending_queue, BatchSize)
    /\ UNCHANGED <<enable_collection, queue_file, collected, collect_result, loads>>

\* _send_to_server returns: the loop goes on to the next await or ends.
FlushSendReturns(ok) ==
    /\ fpc = "sending"
    /\ IF ok
         THEN /\ sent_count' = sent_count + Len(batch)
              /\ sent_items' = sent_items \o batch
              /\ UNCHANGED failed_count
              /\ IF pending_queue = <<>>
                   THEN /\ fpc' = "returned"
                        /\ UNCHANGED <<batch, pending_queue>>
                   ELSE /\ fpc' = "sending"
                        /\ batch' = Take(pending_queue, BatchSize)
                        /\ pending_queue' = Drop(pending_queue, BatchSize)
         ELSE /\ failed_count' = failed_count + Len(batch)
              /\ pending_queue' = Requeue(batch, pending_queue)
              /\ fpc' = "returned"
              /\ UNCHANGED <<sent_count, sent_items, batch>>
    /\ UNCHANGED <<enable_collection, queue_file, collected, collect_result,
                   queue_at_start, disturbed, flushes, loads>>

(***************************************************************************)
(* PrivacyManager: the opt-out files under user_preferences/.              *)
(***************************************************************************)
VARIABLES
    opt_out_files,     \* user -> "absent", "written" (the opt-out record) or "partial"
    create_result,     \* user -> what the last create_opt_out_file returned
    consent_result,    \* user -> what the last check_user_consent returned
    opted_out,         \* user -> create_opt_out_file succeeded and the file has existed since
    consentChecks      \* check_user_consent calls so far

privacyVars == <<opt_out_files, create_result, consent_result, opted_out,
                 consentChecks>>

MaxChecks == 2
Users == {"u1", "u2"}

\* The value of the key data_collection in the record create_opt_out_file writes.
OptOutDataCollection == FALSE

PrivacyRest ==
    /\ opt_out_files = [u \in Users |-> "absent"]
    /\ create_result = [u \in Users |-> "none"]
    /\ consent_result = [u \in Users |-> "none"]
    /\ opted_out = [u \in Users |-> FALSE]
    /\ consentChecks = 0

PrivacyInit == PrivacyRest
PrivacyIdle == PrivacyRest

\* create_opt_out_file: mkdir or open may fail (nothing written), json.dump may
\* fail after open has truncated the file.
CreateOptOutFile(u, outcome) ==
    /\ opt_out_files' =
         [opt_out_files EXCEPT ![u] =
            CASE outcome = "written" -> "written"
              [] outcome = "partial" -> "partial"
              [] OTHER -> @]
    /\ create_result' =
         [create_result EXCEPT ![u] = IF outcome = "written" THEN "True" ELSE "False"]
    /\ opted_out' =
         [opted_out EXCEPT ![u] =
            CASE outcome = "written" -> TRUE
              [] outcome = "partial" -> FALSE
              [] OTHER -> @]
    /\ UNCHANGED <<consent_result, consentChecks>>

\* check_user_consent as it returns for a file in state f.
ConsentOf(f) ==
    CASE f = "absent" -> "True"
      [] f = "written" -> IF ~OptOutDataCollection THEN "True" ELSE "False"
      [] OTHER -> "False"

CheckUserConsent(u) ==
    /\ consentChecks < MaxChecks
    /\ consentChecks' = consentChecks + 1
    /\ consent_result' = [consent_result EXCEPT ![u] = ConsentOf(opt_out_files[u])]
    /\ UNCHANGED <<opt_out_files, create_result, opted_out>>

\* The opt-out file of u is removed from user_preferences/.
RemoveOptOutFile(u) ==
    /\ opt_out_files[u] # "absent"
    /\ opt_out_files' = [opt_out_files EXCEPT ![u] = "absent"]
    /\ opted_out' = [opted_out EXCEPT ![u] = FALSE]
    /\ UNCHANGED <<create_result, consent_result, consentChecks>>

(***************************************************************************)
(* -------------------------  REPLAY NAVIGATION  ------------------------- *)
(* ChatReplayManager (src/frontend/components/chat_replay_manager.py): the *)
(* replay of a saved session event by event, with a slider, four buttons   *)
(* and an auto-replay that advances one event per run of the page.  Only   *)
(* the number of events of the loaded session matters here.                *)
(***************************************************************************)
VARIABLES
    replay_mode,        \* st.session_state.replay_mode
    replay_events_len,  \* len(st.session_state.replay_session.events), 0 without a session
    replay_event_index, \* st.session_state.replay_event_index, NoIndex if the key is absent
    auto_replay,        \* st.session_state.auto_replay
    navSteps            \* user actions and page runs so far

navVars == <<replay_mode, replay_events_len, replay_event_index, auto_replay,
             navSteps>>

\* Bounds of the navigation model: events of a saved session, steps taken.
MaxSessionLen == 3
MaxNavSteps == 8

NoIndex == -1

\* st.session_state.get("replay_event_index", 0)
CurrentIdx == IF replay_event_index = NoIndex THEN 0 ELSE replay_event_index
MaxIdx == replay_events_len - 1

NavRest ==
    /\ replay_mode = FALSE
    /\ replay_events_len = 0
    /\ replay_event_index = NoIndex
    /\ auto_replay = FALSE
    /\ navSteps = 0

NavInit == NavRest
NavIdle == NavRest

NavStep == navSteps < MaxNavSteps /\ navSteps' = navSteps + 1

\* The controls are drawn in replay mode for a session of more than one event.
ControlsShown == replay_mode /\ replay_events_len > 1

\* start_replay(session_id) for a saved session of n events (a saved
\* ConversationSession holds at least its session_start event).
NavStartReplay(n) ==
    /\ NavStep
    /\ replay_mode' = TRUE
    /\ replay_events_len' = n
    /\ replay_event_index' = CurrentIdx
    /\ UNCHANGED auto_replay

\* stop_replay: the replay keys are deleted.
NavStopReplay ==
    /\ NavStep
    /\ replay_mode
    /\ replay_mode' = FALSE
    /\ replay_events_len' = 0
    /\ replay_event_index' = NoIndex
    /\ UNCHANGED auto_replay

\* The slider is moved to i.
SliderMove(i) ==
    /\ NavStep
    /\ ControlsShown
    /\ i \in 0..MaxIdx
    /\ i # CurrentIdx
    /\ replay_event_index' = i
    /\ UNCHANGED <<replay_mode, replay_events_len, auto_replay>>

\* The buttons first, previous, next and last.
NavButton(b) ==
    /\ NavStep
    /\ ControlsShown
    /\ replay_event_index' =
         CASE b = "first" -> 0
           [] b = "prev" -> IF CurrentIdx > 0 THEN CurrentIdx - 1
                            ELSE replay_event_index
           [] b = "next" -> IF CurrentIdx < MaxIdx THEN CurrentIdx + 1
                            ELSE replay_event_index
           [] OTHER -> MaxIdx
    /\ UNCHANGED <<replay_mode, replay_events_len, auto_replay>>

\* The play / pause button.
TogglePlay ==
    /\ NavStep
    /\ ControlsShown
    /\ auto_replay' = ~auto_replay
    /\ UNCHANGED <<replay_mode, replay_events_len, replay_event_index>>

\* get_replay_messages with auto_replay on: one event further, or the end.
AutoReplayStep ==
    /\ NavStep
    /\ replay_mode
    /\ replay_events_len > 0
    /\ auto_replay
    /\ IF CurrentIdx < MaxIdx
         THEN /\ replay_event_index' = CurrentIdx + 1
              /\ UNCHANGED auto_replay
         ELSE /\ auto_replay' = FALSE
              /\ UNCHANGED replay_event_index
    /\ UNCHANGED <<replay_mode, replay_events_len>>

(***************************************************************************)
(* ------------------------  TERMINAL STREAMING  ------------------------- *)
(* The web terminal of src/tests/tmux_terminal_web.py: one polling thread  *)
(* per connected tmux session, steered by the flag                         *)
(* streaming_sessions[session_id].  Socket.IO handlers, MCP tools and      *)
(* pollers are threads of one process.                                     *)
(***************************************************************************)
VARIABLES
    streaming_sessions, \* session -> "absent", "True" or "False"
    atLoopHead,         \* session -> pollers about to test the flag (line 54)
    inLoopBody,         \* session -> pollers capturing the pane or in sleep(0.5)
    connect_pc,         \* session -> "idle", or "waiting": a connect_session
                        \* handler is in its sleep(0.1) or about to set the flag
    tmux_alive,         \* session -> the tmux session exists
    connects            \* connect_session events handled so far

pollVars == <<streaming_sessions, atLoopHead, inLoopBody, connect_pc,
              tmux_alive, connects>>

\* Bound of the streaming model: connect_session events.
MaxConnects == 3

PollSessions == {"s1", "s2"}

PollRest ==
    /\ streaming_sessions = [s \in PollSessions |-> "absent"]
    /\ atLoopHead = [s \in PollSessions |-> 0]
    /\ inLoopBody = [s \in PollSessions |-> 0]
    /\ connect_pc = [s \in PollSessions |-> "idle"]
    /\ tmux_alive = [s \in PollSessions |-> TRUE]
    /\ connects = 0

PollInit == PollRest
PollIdle == PollRest

\* The threads running stream_session_output_polling(s).
Pollers(s) == atLoopHead[s] + inLoopBody[s]

\* if session_id in streaming_sessions: streaming_sessions[session_id] = False
StopStreaming(flag) == IF flag = "absent" THEN flag ELSE "False"

\* handle_connect_session up to the end of its time.sleep(0.1): a session tmux
\* does not know is refused; a streaming of the session is told to stop.
ConnectSessionBegin(s) ==
    /\ connects < MaxConnects
    /\ connect_pc[s] = "idle"
    /\ connects' = connects + 1
    /\ IF tmux_alive[s]
         THEN /\ streaming_sessions' =
                   [streaming_sessions EXCEPT ![s] = StopStreaming(@)]
              /\ connect_pc' = [connect_pc EXCEPT ![s] = "waiting"]
         ELSE UNCHANGED <<streaming_sessions, connect_pc>>
    /\ UNCHANGED <<atLoopHead, inLoopBody, tmux_alive>>

\* handle_connect_session from there: the flag is set and a new thread started.
ConnectSessionStart(s) ==
    /\ connect_pc[s] = "waiting"
    /\ connect_pc' = [connect_pc EXCEPT ![s] = "idle"]
    /\ streaming_sessions' = [streaming_sessions EXCEPT ![s] = "True"]
    /\ atLoopHead' = [atLoopHead EXCEPT ![s] = @ + 1]
    /\ UNCHANGED <<inLoopBody, tmux_alive, connects>>

\* handle_disconnect_session
DisconnectSession(s) ==
    /\ streaming_sessions[s] = "True"
    /\ streaming_sessions' = [streaming_sessions EXCEPT ![s] = StopStreaming(@)]
    /\ UNCHANGED <<atLoopHead, inLoopBody, connect_pc, tmux_alive, connects>>

\* session_kill: the streaming is told to stop and tmux kills the session.
SessionKill(s) ==
    /\ tmux_alive[s]
    /\ streaming_sessions' = [streaming_sessions EXCEPT ![s] = StopStreaming(@)]
    /\ tmux_alive' = [tmux_alive EXCEPT ![s] = FALSE]
    /\ UNCHANGED <<atLoopHead, inLoopBody, connect_pc, connects>>

\* A poller tests `while streaming_sessions.get(session_id, False)`: it goes
\* into the loop body or ends.
PollerTest(s) ==
    /\ atLoopHead[s] > 0
    /\ atLoopHead' = [atLoopHead EXCEPT ![s] = @ - 1]
    /\ inLoopBody' =
         [inLoopBody EXCEPT ![s] = IF streaming_sessions[s] = "True" THEN @ + 1 ELSE @]
    /\ UNCHANGED <<streaming_sessions, connect_pc, tmux_alive, connects>>

\* A poller comes out of sleep(0.5), or leaves the loop on an exception.
PollerWake(s, raised) ==
    /\ inLoopBody[s] > 0
    /\ inLoopBody' = [inLoopBody EXCEPT ![s] = @ - 1]
    /\ atLoopHead' = [atLoopHead EXCEPT ![s] = IF raised THEN @ ELSE @ + 1]
    /\ UNCHANGED <<streaming_sessions, connect_pc, tmux_alive, connects>>

(***************************************************************************)
(* --------------------------  SPECIFICATIONS  --------------------------- *)
(***************************************************************************)
\* The subsystems modelled beside the four of the agent application.
auxVars == <<dedupVars, logVars, collectorVars, privacyVars, navVars, 
            pollVars>>

vars == <<tmuxVars, turnVars, replayVars, threadVars, auxVars>>

TmuxIdle == TmuxInit /\ impl = "terminal"

TmuxFrame == UNCHANGED <<turnVars, replayVars, threadVars, auxVars>>
TurnFrame == UNCHANGED <<tmuxVars, replayVars, threadVars, auxVars>>
ReplayFrame == UNCHANGED <<tmuxVars, turnVarsNotReplayed, threadVars, auxVars>>
GraphFrame == UNCHANGED <<tmuxVars, turnVars, replayVars, auxVars>>
NewChatFrame == UNCHANGED <<tmuxVars, turnVarsNotCleared, replayVars, auxVars>>
CoreFrame == UNCHANGED <<tmuxVars, turnVars, replayVars, threadVars>>
DedupFrame == CoreFrame /\ UNCHANGED <<logVars, collectorVars, privacyVars, 
        navVars, pollVars>>
LogFrame == CoreFrame /\ UNCHANGED <<dedupVars, collectorVars, privacyVars, 
        navVars, pollVars>>
CollectorFrame == CoreFrame /\ UNCHANGED <<dedupVars, logVars, privacyVars, 
        navVars, pollVars>>
PrivacyFrame == CoreFrame /\ UNCHANGED <<dedupVars, logVars, collectorVars, 
        navVars, pollVars>>
NavFrame == CoreFrame /\ UNCHANGED <<dedupVars, logVars, collectorVars, 
        privacyVars, pollVars>>
PollFrame == CoreFrame /\ UNCHANGED <<dedupVars, logVars, collectorVars, 
        privacyVars, navVars>>

TmuxNext ==
    \/ \E c \in Callers, s \in SessionIds : CreateSession(c, s) /\ TmuxFrame
    \/ \E c \in Callers, s \in SessionIds : ExecSend(c, s) /\ TmuxFrame
    \/ \E s \in SessionIds : CmdReturn(s) /\ TmuxFrame
    \/ \E c \in Callers : ExecCapture(c) /\ TmuxFrame
    \/ \E c \in Callers, s \in SessionIds : KillSession(c, s) /\ TmuxFrame
    \/ \E c \in Callers : KillServer(c) /\ TmuxFrame
    \/ \E c \in Callers : CallerNext(c) /\ TmuxFrame

TurnNext ==
    \/ \E u \in UserInputs : StartTurn(u) /\ TurnFrame
    \/ \E e \in GraphMessages : OnMessage(e) /\ TurnFrame
    \/ OnComplete /\ TurnFrame
    \/ OnError /\ TurnFrame
    \/ StreamEnd /\ TurnFrame
    \/ OnStreamException /\ TurnFrame
    \/ \E u \in UserInputs : InputWhileRunning(u) /\ TurnFrame
    \/ ResetSession /\ TurnFrame
    \/ InitializeExecutor /\ TurnFrame

ReplayNext ==
    \/ StartReplay /\ ReplayFrame
    \/ RestartReplay /\ ReplayFrame
    \/ ReplayStep /\ ReplayFrame
    \/ FinishReplay /\ ReplayFrame
    \/ StopReplay /\ ReplayFrame

ThreadNext ==
    \/ BeginTurn /\ GraphFrame
    \/ \E plan \in CallPlans(wagent) : LLMStep(plan) /\ GraphFrame
    \/ ToolStep /\ GraphFrame
    \/ Persist /\ GraphFrame
    \/ Abort /\ GraphFrame
    \/ ReplayCompleted /\ GraphFrame
    \/ ResetExecutor /\ GraphFrame
    \/ NewChat /\ NewChatFrame

DedupNext ==
    \/ CheckDuplicate /\ DedupFrame

LogNext ==
    \/ LoggerStartSession /\ LogFrame
    \/ \E k \in LoggedKinds : LoggerLog(k) /\ LogFrame
    \/ \E ok \in BOOLEAN : LoggerSaveSession(ok) /\ LogFrame
    \/ \E ok \in BOOLEAN : LoggerEndSession(ok) /\ LogFrame
    \/ Midnight /\ LogFrame

\* Each specification starts one subsystem and keeps the others at rest.
AuxIdle == DedupIdle /\ LogIdle /\ CollectorIdle /\ PrivacyIdle /\ 
    /\ NavIdle /\ PollIdle
CoreIdle == TmuxIdle /\ TurnIdle /\ ReplayIdle /\ ThreadIdle
InitTmux == TmuxInit /\ TurnIdle /\ ReplayIdle /\ ThreadIdle /\ AuxIdle
InitTurn == TmuxIdle /\ TurnInit /\ ReplayIdle /\ ThreadIdle /\ AuxIdle
InitReplay == TmuxIdle /\ TurnIdle /\ ReplayInit /\ ThreadIdle /\ AuxIdle
InitThread == TmuxIdle /\ TurnIdle /\ ReplayIdle /\ ThreadInit /\ AuxIdle
InitTurnWeb == InitTurn /\ consumer \in WebConsumers /\ hashSeed = "s1"
InitDedup == CoreIdle /\ DedupInit /\ LogIdle /\ CollectorIdle
   /\ PrivacyIdle /\ NavIdle /\ PollIdle
InitLog == CoreIdle /\ DedupIdle /\ LogInit /\ CollectorIdle /\ PrivacyIdle
   /\ NavIdle /\ PollIdle
InitCollector == CoreIdle /\ DedupIdle /\ LogIdle /\ CollectorInit
   /\ PrivacyIdle /\ NavIdle /\ PollIdle
InitPrivacy == CoreIdle /\ DedupIdle /\ LogIdle /\ CollectorIdle
   /\ PrivacyInit /\ NavIdle /\ PollIdle
InitNav == CoreIdle /\ DedupIdle /\ LogIdle /\ CollectorIdle /\ PrivacyIdle
   /\ NavInit /\ PollIdle
InitPoll == CoreIdle /\ DedupIdle /\ LogIdle /\ CollectorIdle /\ PrivacyIdle
   /\ NavIdle /\ PollInit

\* The tool server and its clients.
SpecTmux == InitTmux /\ [][TmuxNext]_vars

\* A consumer running turns on the executor's event stream.
SpecTurn == InitTurn /\ [][TurnNext]_vars

\* The replay of a saved session.
SpecReplay == InitReplay /\ [][ReplayNext]_vars

\* The executor running turns of the graph on the configured thread.
SpecThread == InitThread /\ [][ThreadNext]_vars

\* One call of the duplicate check on arbitrary arguments.
SpecDedup == InitDedup /\ [][DedupNext]_vars

\* The session logger and its files over the days.
SpecLog == InitLog /\ [][LogNext]_vars

\* A web consumer whose turns run on: the executor's stream goes on to its
\* terminal event or raises, and the consumer's loop runs to its end.
TurnFairNext ==
    \/ \E u \in UserInputs : StartTurn(u) /\ TurnFrame
    \/ \E e \in GraphMessages : OnMessage(e) /\ TurnFrame
    \/ OnComplete /\ TurnFrame
    \/ OnError /\ TurnFrame
    \/ StreamEnd /\ TurnFrame
    \/ OnStreamException /\ TurnFrame

TurnStreamEnds == OnComplete \/ OnError \/ OnStreamException
SpecTurnFair ==
    /\ InitTurnWeb
    /\ [][TurnFairNext]_vars
    /\ WF_vars(TurnStreamEnds /\ TurnFrame)
    /\ WF_vars(StreamEnd /\ TurnFrame)

CollectorNext ==
    \/ \E immediate \in BOOLEAN, ok \in BOOLEAN :
         CollectSession(immediate, ok) /\ CollectorFrame
    \/ \E ok \in BOOLEAN : SaveQueueToFile(ok) /\ CollectorFrame
    \/ LoadQueueFromFile /\ CollectorFrame
    \/ FlushBegin /\ CollectorFrame
    \/ \E ok \in BOOLEAN : FlushSendReturns(ok) /\ CollectorFrame

PrivacyNext ==
    \/ \E u \in Users, outcome \in {"written", "not opened", "partial"} :
         CreateOptOutFile(u, outcome) /\ PrivacyFrame
    \/ \E u \in Users : CheckUserConsent(u) /\ PrivacyFrame
    \/ \E u \in Users : RemoveOptOutFile(u) /\ PrivacyFrame

\* The tasks of one event loop using one DataCollector.
SpecCollector == InitCollector /\ [][CollectorNext]_vars

\* Calls of the PrivacyManager and the files under user_preferences/.
SpecPrivacy == InitPrivacy /\ [][PrivacyNext]_vars

NavNext ==
    \/ \E n \in 1..MaxSessionLen : NavStartReplay(n) /\ NavFrame
    \/ NavStopReplay /\ NavFrame
    \/ \E i \in 0..MaxSessionLen : SliderMove(i) /\ NavFrame
    \/ \E b \in {"first", "prev", "next", "last"} : NavButton(b) /\ NavFrame
    \/ TogglePlay /\ NavFrame
    \/ AutoReplayStep /\ NavFrame

\* One browser session stepping through saved sessions.
SpecNav == InitNav /\ [][NavNext]_vars

PollNext ==
    \/ \E s \in PollSessions : ConnectSessionBegin(s) /\ PollFrame
    \/ \E s \in PollSessions : ConnectSessionStart(s) /\ PollFrame
    \/ \E s \in PollSessions : DisconnectSession(s) /\ PollFrame
    \/ \E s \in PollSessions : SessionKill(s) /\ PollFrame
    \/ \E s \in PollSessions : PollerTest(s) /\ PollFrame
    \/ \E s \in PollSessions, raised \in BOOLEAN : PollerWake(s, raised) /\ PollFrame

\* The threads of the web terminal.
SpecPoll == InitPoll /\ [][PollNext]_vars
(***************************************************************************)
(* -----------------------------  CLAIMS  -------------------------------- *)
(***************************************************************************)

\* C1 (wait-for synchrony): whenever a command_exec has returned pane text,
\* that text was captured after the command it sent had returned, so the
\* command's output is part of the captured pane.
C1_WaitForSynchrony ==
    \A c \in Callers :
        (cpc[c] = "done" /\ creq[c].op = "exec" /\ cres[c].kind = "text")
            => <<"out", creq[c].call>> \in Range(cres[c].pane)

\* C10 (unknown session): a command_exec on an id the tmux server did not hold
\* when the call was made ends in an error, never in a returned text.
C10_UnknownSessionIsError ==
    \A c \in Callers :
        (cpc[c] = "done" /\ creq[c].op = "exec" /\ ~creq[c].existed)
            => cres[c].kind = "error"

\* C10 witness: an id was created, served a command_exec, was killed, and a
\* further command_exec on it has ended in the error.
C10_Witness ==
    \E c \in Callers :
        /\ cpc[c] = "done"
        /\ creq[c].op = "exec"
        /\ ~creq[c].existed
        /\ creq[c].sid \in everKilled
        /\ creq[c].sid \in everExeced
        /\ cres[c].kind = "error"


\* C11 (kill_session is idempotent): every kill_session that has returned has
\* returned success, whether or not the server held the id.
C11_KillAlwaysSucceeds ==
    \A c \in Callers :
        (cpc[c] = "done" /\ creq[c].op = "kill") => cres[c].kind = "text"

\* C12 (ids are unique among live sessions): a create_session that has
\* returned an id returned one the server did not hold when the call was made.
C12_CreatedIdWasFree ==
    \A c \in Callers :
        (cpc[c] = "done" /\ creq[c].op = "create" /\ cres[c].kind = "text")
            => ~creq[c].existed

\* C12 witness: an id was created, killed and returned again by a later
\* create_session, while a create_session that drew the id of a live session
\* has been refused.
C12_Witness ==
    \E c, d \in Callers :
        /\ cpc[c] = "done" /\ creq[c].op = "create" /\ cres[c].kind = "text"
        /\ creq[c].sid \in everKilled
        /\ cpc[d] = "done" /\ creq[d].op = "create" /\ cres[d].kind = "error"
        /\ creq[d].existed

\* The class of a chat message or log event: user, agent or tool.
TypeClass(t) ==
    CASE t \in {"user", "user_input"} -> "user"
      [] t \in {"ai", "agent", "agent_response"} -> "agent"
      [] OTHER -> "tool"

\* A rebuilt chat message stands for a logged event: same class, same agent
\* or tool name, same text (a tool command may carry its "Command: " label).
Renders(m, ev) ==
    /\ TypeClass(m.type) = TypeClass(ev.event_type)
    /\ TypeClass(m.type) = "agent" => Lower(m.agent_id) = Lower(ev.agent_name)
    /\ TypeClass(m.type) = "tool" => m.tool_name = ev.tool_name
    /\ m.content \in {ev.content, WithCommandPrefix(ev.content)}

MessageEventsOf(L) == SelectSeq(L, LAMBDA ev : ev.event_type \in MessageKinds)

\* C2 (determinism of replay): when a replay has run to its end, the chat it
\* rebuilt holds exactly one message per logged message event, in the logged
\* order, each with the event's kind, name and content.
C2_ReplayOnePerEvent ==
    rpc = "done" =>
        LET L == MessageEventsOf(replay_session) IN
        /\ Len(structured_messages) = Len(L)
        /\ \A i \in 1..Len(L) : Renders(structured_messages[i], L[i])

C4_SameEventSameId ==
    [][\A e \in ExecutorEvents :
          ProcessCliEvent(e, now').id = ProcessCliEvent(e, now).id]_vars

\* The chat the live run showed, and the chat a replay of the saved log
\* rebuilds, as sequences of (class, name, text).
LiveChat ==
    IF consumer \in WebConsumers
      THEN [i \in 1..Len(structured_messages) |->
              LET m == structured_messages[i] IN
              [class |-> TypeClass(m.type),
               name |-> IF m.type = "ai" THEN m.agent_id ELSE m.tool_name,
               content |-> m.content]]
      ELSE [i \in 1..Len(console) |->
              LET l == console[i] IN
              [class |-> TypeClass(l.type), name |-> Lower(l.name),
               content |-> l.content]]

ReplayedChat ==
    [i \in 1..Len(disk.events) |->
        LET m == ConvertToFrontendMessage(disk.events[i], now) IN
        [class |-> TypeClass(m.type),
         name |-> IF m.type = "agent" THEN m.agent_id ELSE Lower(m.tool_name),
         content |-> m.content]]

\* C8 (replay equals live): once a turn whose stream completed has been saved,
\* replaying the saved log rebuilds the sequence of messages the live chat
\* shows.
C8_ReplayEqualsLive ==
    (tpc = "idle" /\ stream = "completed" /\ consumer # "cli" /\ disk.exists)
        => ReplayedChat = LiveChat

\* C9 (terminal event is last): once the turn's stream has yielded
\* WorkflowComplete or Error, no step of that turn appends to the chat,
\* prints, logs or records a further event.
C9_NothingAfterTerminal ==
    [][(tpc = "streaming" /\ stream \in {"completed", "errored"})
          => /\ structured_messages' = structured_messages
             /\ console' = console
             /\ logger_events' = logger_events
             /\ event_history' = event_history]_vars

\* C9 witness: the web app has consumed messages and then the Error event,
\* and is still iterating the stream.
C9_Witness ==
    /\ consumer = "webapp"
    /\ tpc = "streaming"
    /\ stream = "errored"
    /\ Len(structured_messages) >= 2
    /\ Len(logger_events) >= 2

\* C5 (thread isolation): the configured thread id is none of the thread ids
\* a new chat has replaced, and the first turn on a thread configuration
\* loads no earlier message.
C5_NewChatIsFresh ==
    /\ thread_config.thread_id \notin pastThreadIds
    /\ (gpc # "idle" /\ chatTurns = 1) => loaded = <<>>

\* C5 witness: a turn was saved on the default thread, a new chat was started
\* after a replay, and the new chat's first turn runs on an empty history.
C5_Witness ==
    /\ pastThreadIds # {}
    /\ \E t \in pastThreadIds :
         t \in DOMAIN checkpointer /\ checkpointer[t].messages # <<>>
    /\ gpc = "llm"
    /\ chatTurns = 1
    /\ wmessages = <<UserMsg>>

\* C6 (no orphan tool calls): in every saved ThreadState, and in the state a
\* completed turn is about to save, every tool call of an assistant message
\* has a ToolResult with its tool_call_id.
C6_NoOrphanToolCalls ==
    /\ \A t \in DOMAIN checkpointer : NoOrphanCalls(checkpointer[t].messages)
    /\ gpc = "complete" => NoOrphanCalls(wmessages)

\* C6 witness: a saved ThreadState holds an assistant message with two tool
\* calls, and a later turn on that thread was aborted while its tool calls
\* were outstanding.
C6_Witness ==
    /\ gpc = "idle"
    /\ graphTurns >= 2
    /\ nextCallId >= 3
    /\ \E t \in DOMAIN checkpointer :
         /\ \E i \in 1..Len(checkpointer[t].messages) :
              Len(checkpointer[t].messages[i].calls) = 2
         /\ \A i \in 1..Len(checkpointer[t].messages) :
              \A k \in 1..Len(checkpointer[t].messages[i].calls) :
                  checkpointer[t].messages[i].calls[k].id <= 2

\* C7 (handoff atomicity): in every state a step can observe, and in every
\* saved ThreadState, current_agent_name is the target of the latest handoff
\* ToolResult of the messages (the default agent when there is none).
C7_PointerMatchesHandoff ==
    /\ gpc # "idle" => wagent = LastHandoffTarget(wmessages)
    /\ \A t \in DOMAIN checkpointer :
         checkpointer[t].current_agent_name = LastHandoffTarget(checkpointer[t].messages)

\* C7 witness: a handoff's ToolResult is the latest message and the pointer
\* names its target.
C7_Witness ==
    /\ gpc \in {"llm", "tools"}
    /\ wmessages # <<>>
    /\ wmessages[Len(wmessages)].kind = "tool"
    /\ wmessages[Len(wmessages)].target = "Reconnaissance"
    /\ wagent = "Reconnaissance"

\* C13 (tool failures do not halt the turn): no run of the graph is halted by
\* a failing tool, and in the state a completed turn is about to save every
\* ToolResult carrying a failure is followed by a further assistant message.
C13_FailureIsAToolResult ==
    /\ gpc # "halted"
    /\ gpc = "complete" =>
         \A i \in 1..Len(wmessages) :
             (wmessages[i].kind = "tool" /\ wmessages[i].content = "failure")
                 => \E j \in (i + 1)..Len(wmessages) : wmessages[j].kind = "assistant"

\* C13 witness: a tool call of the running turn failed, its ToolResult carries
\* the failure, and the turn has reached WorkflowComplete.
C13_Witness ==
    /\ gpc = "complete"
    /\ \E i \in (Len(loaded) + 1)..Len(wmessages) :
         /\ wmessages[i].kind = "tool"
         /\ wmessages[i].target = "none"
         /\ wmessages[i].content = "failure"

\* C14 (a failed log write does not fail the turn): when a turn has ended and
\* its save_session call failed to write, the execute call has returned what
\* it returns after a successful write, nothing was raised, and no turn is
\* marked as running, so the next input is admitted.
C14_WriteFailureKeepsOutcome ==
    (tpc = "idle" /\ turn_result # "none" /\ last_save = "failed")
        => /\ turn_result = ReturnValue(consumer, stream)
           /\ AdmitsInput

\* C14 witness: cliv3 completed a turn whose save failed to write, returned
\* True, and is running the next turn.
C14_Witness ==
    /\ consumer = "cliv3"
    /\ last_save = "failed"
    /\ ~disk.exists
    /\ turnCount = 2
    /\ tpc = "streaming"
    /\ Len(logger_events) >= 3

\* C15 (the log is saved at every turn end and on reset): a step that ends a
\* turn of a logging consumer (after WorkflowComplete, after an Error event)
\* or resets the session, and whose write succeeds, leaves on disk every
\* event logged up to that step.
C15_SavedAtTurnEndAndReset ==
    [][/\ (tpc = "streaming" /\ tpc' = "idle" /\ consumer # "cli"
             /\ last_save' = "saved")
            => disk' = SavedFile(logger_events')
       /\ (tpc = "idle" /\ tpc' = "model_selection" /\ last_save' = "saved")
            => disk' = SavedFile(logger_events)]_vars

\* C15 witness: the web app has been reset after a turn with an agent
\* message, and the file holds the user input and the agent response.
C15_Witness ==
    /\ consumer = "webapp"
    /\ tpc = "model_selection"
    /\ last_save = "saved"
    /\ Len(disk.events) >= 2
    /\ stream = "errored"

\* The number of logged events of a kind.
CountKind(L, k) == Len(SelectSeq(L, LAMBDA ev : ev.event_type = k))

\* C16 (one command entry and one output entry per tool invocation): the
\* session log holds as many tool_command entries as tool_output entries.
C16_CommandAndOutputLogged ==
    CountKind(logger_events, "tool_command") = CountKind(logger_events, "tool_output")

\* C19 (single writer): a user input that arrives at a web consumer while its
\* turn is running changes neither the chat nor the log nor the event
\* history, and starts no turn.
C19_InputWhileRunningRejected ==
    [][(tpc = "streaming" /\ rejectCount' = rejectCount + 1)
          => /\ structured_messages' = structured_messages
             /\ logger_events' = logger_events
             /\ event_history' = event_history
             /\ turnCount' = turnCount
             /\ tpc' = tpc /\ stream' = stream]_vars

\* C19 witness: the web app turned an input away while its turn was running
\* with an agent message already shown.
C19_Witness ==
    /\ consumer = "webapp"
    /\ tpc = "streaming"
    /\ workflow_running
    /\ rejectCount >= 1
    /\ Len(structured_messages) >= 2
    /\ turnCount = 1

\* C20 (de-duplication is per turn): while the running turn has emitted
\* nothing yet, a step that delivers an agent or tool message emits it,
\* whatever earlier turns emitted.
C20_DedupPerTurn ==
    [][\A e \in ExecutorEvents :
          (/\ consumer \in WebConsumers
           /\ tpc = "streaming"
           /\ e.message_type \in {"ai", "tool"}
           /\ event_history' = Append(event_history, e)
           /\ \A f \in GraphMessages : emitCount[f] = 0)
          => emitCount'[e] = 1]_vars

\* The agent of the latest agent_response of a log, lower-cased; "none" when
\* there is none.  The live run derives it from the event history.
RECURSIVE LatestLoggedAgent(_)
LatestLoggedAgent(L) ==
    IF L = <<>> THEN "none"
    ELSE LET ev == L[Len(L)] IN
         IF ev.event_type = "agent_response" /\ ev.agent_name \notin {"none", "Unknown"}
           THEN Lower(ev.agent_name)
           ELSE LatestLoggedAgent(SubSeq(L, 1, Len(L) - 1))

\* The agent status the live run showed after the last event of a log: the
\* live rule (_update_agent_status of the handler) applied event by event,
\* from an empty status.
RECURSIVE LiveStatusAfter(_)
LiveStatusAfter(L) ==
    IF L = <<>> THEN [active |-> "none", completed |-> <<>>]
    ELSE LET st == LiveStatusAfter(SubSeq(L, 1, Len(L) - 1))
             a == LatestLoggedAgent(L)
         IN IF a # "none" /\ a # st.active
              THEN [active |-> a,
                    completed |-> IF st.active # "none" /\ st.active \notin Range(st.completed)
                                    THEN Append(st.completed, st.active)
                                    ELSE st.completed]
              ELSE st

\* C17 (replay shows the live agent status): after each replayed event of a
\* replayer that updates the status event by event, and at the end of every
\* replay, active_agent and completed_agents are what the live run showed
\* after the same event.
C17_ReplayStatusEqualsLive ==
    ((rpc = "running" /\ replay_i > 0 /\ replayer # "manager") \/ rpc = "done")
        => [active |-> active_agent, completed |-> completed_agents]
             = LiveStatusAfter(SubSeq(replay_session, 1, replay_i))

\* C18 (reset destroys the ThreadState): the first turn begun after a session
\* reset loads no message.
C18_ResetStartsEmpty ==
    [][(resetMark = "reset" /\ gpc = "idle" /\ gpc' # "idle") => loaded' = <<>>]_vars

\* Some message of the list has the id of m, or its agent, type and content.
HasMatch(m, existing) ==
    \E x \in Range(existing) :
        \/ x.id = m.id
        \/ <<x.agent_id, x.type, x.content>> = <<m.agent_id, m.type, m.content>>

FilesOf(files, id) == {p \in DOMAIN files : p[3] = id}

IsPrefix(s, t) == Len(s) <= Len(t) /\ SubSeq(t, 1, Len(s)) = s

\* C22 (one JSON document per session): a session id that has been saved has
\* exactly one file session_<id>.json under logs/.
C22_OneFilePerSession ==
    \A id \in 1..sessionsStarted : Cardinality(FilesOf(log_files, id)) <= 1

\* C23 (the event journal only grows): the events of the open session grow at
\* the end only, and every file a step writes holds, as a prefix, the events
\* of every file the session had before the step.
C23_SavedVersionsArePrefixes ==
    [][/\ (current_session'.session_id = current_session.session_id)
            => IsPrefix(current_session.events, current_session'.events)
       /\ \A q \in DOMAIN log_files' :
            (q \notin DOMAIN log_files \/ log_files'[q] # log_files[q])
              => \A p \in FilesOf(log_files, q[3]) :
                    IsPrefix(log_files[p], log_files'[q])]_vars

\* C23 witness: a session was saved with one event and, after the date had
\* changed, again with two; both files exist.
C23_Witness ==
    \E id \in 1..sessionsStarted :
        /\ SessionFilePath(1, id) \in DOMAIN log_files
        /\ SessionFilePath(2, id) \in DOMAIN log_files
        /\ Len(log_files[SessionFilePath(1, id)]) = 1
        /\ Len(log_files[SessionFilePath(2, id)]) = 2

\* C24 (workflow_running is always cleared): between turns the flag is not
\* set, and a turn that has set it leads to a state where it is cleared,
\* whether the stream ended with WorkflowComplete, with an Error event or
\* with an exception.
C24_RunningEventuallyCleared ==
    /\ [](tpc = "idle" => ~workflow_running)
    /\ (workflow_running ~> ~workflow_running)

\* C24 witness: the handler's turn was ended by an exception out of the
\* stream after at least one event; the call returned False with the flag
\* cleared.
C24_Witness ==
    /\ consumer = "handler"
    /\ stream = "raised"
    /\ tpc = "idle"
    /\ eventCount >= 1
    /\ turn_result = "false"
    /\ ~workflow_running

\* C25 (the pending queue is bounded): after any interleaving of
\* collect_session, flush_queue and load_queue_from_file the queue holds at
\* most max_queue_size items.
C25_QueueBounded == Len(pending_queue) <= MaxQueueSize

\* What flush_queue leaves when it returns.
FlushAccounts ==
    /\ sent_count = Len(sent_items)
    /\ failed_count > 0 =>
         /\ failed_count = Len(batch)
         /\ IsPrefix(batch, pending_queue)
    /\ failed_count = 0 => pending_queue = <<>>
    /\ ~disturbed => queue_at_start = sent_items \o pending_queue

\* C26 (flush_queue loses and reorders nothing): when flush_queue returns, it
\* has counted as sent exactly the items of the batches the server accepted;
\* a failed batch is counted as failed and is back at the front of the queue
\* in its order; and if no other task changed the queue meanwhile, the queue
\* it found is the sent items followed by the queue it leaves.
C26_FlushLosesNothing ==
    [][(flushes' # flushes \/ fpc = "sending") /\ fpc' = "returned"
         => FlushAccounts']_vars

\* C26 witness: a flush of a queue within its limit has returned after a
\* batch failed, with an item not yet attempted behind the failed batch and
\* no other task having changed the queue.
C26_Witness ==
    /\ fpc = "returned"
    /\ failed_count > 0
    /\ ~disturbed
    /\ Len(queue_at_start) <= MaxQueueSize
    /\ Len(pending_queue) > Len(batch)

\* C30 (an opt-out is honoured): after create_opt_out_file(u) has succeeded
\* and while the file of u exists, every check_user_consent(u) returns False.
C30_OptOutHonoured ==
    [][\A u \in Users :
         (/\ opted_out[u]
          /\ opt_out_files[u] # "absent"
          /\ consentChecks' # consentChecks
          /\ consent_result'[u] # consent_result[u])
         => consent_result'[u] = "False"]_vars

\* C27 (stop_replay restores the chat): when stop_replay has run,
\* structured_messages is the list that was there when replay mode was
\* entered, however many start_replay calls came before it.
C27_StopRestoresChat ==
    [][rpc # "stopped" /\ rpc' = "stopped"
         => structured_messages' = chat_before_replay]_vars

\* C28 (the replay index stays in range): while replay mode is on,
\* replay_event_index is an index of the events of the session being replayed.
C28_IndexInRange ==
    replay_mode => replay_event_index \in 0..(replay_events_len - 1)

\* C29 (one poller per session): at any time at most one thread is running
\* stream_session_output_polling for a session id.
C29_OnePollerPerSession == \A s \in PollSessions : Pollers(s) <= 1

====
